---- MODULE Spec2Model ----
(***************************************************************************)
(* Day 8 of the 2025 solutions (src/unnamed/part_002): the disjoint-set    *)
(* forest UnionFind, the candidate edge list createSortedPairs, and the    *)
(* two queries part1 (Query A) and part2 (Query B).                        *)
(*                                                                         *)
(* Indices are 0-based as in the source: parent, size and boxes are        *)
(* functions on 0..N-1.  A Box is the tuple <<x, y, z>>; the source's      *)
(* a[0], a[1], a[2] are a[1], a[2], a[3] here.  pairs is a sequence, the   *)
(* source's pairs[k] is pairs[k + 1] here.                                 *)
(***************************************************************************)
EXTENDS Integers, Sequences, FiniteSets, TLC

VARIABLES
    boxes,        \* part1/part2: the parsed points, [0..N-1 -> Box]
    pairs,        \* part1/part2: the sorted candidate list
    parent,       \* UnionFind.parent
    size,         \* UnionFind.size
    pc,           \* position of the running function
    k,            \* loop index of part1/part2
    connections,  \* part1: budget consumed
    components,   \* part2: live component counter
    result,       \* the value returned, [nan, val]
    attempts,     \* history: the union calls made by the query, in order
    last,         \* history: the last UnionFind call, with the forest before it
    alt,          \* the same calls on a forest whose equal-size merge
                  \* attaches root(a) under root(b)
    run,          \* which invocation this is, and what the first one did
    frames,       \* buildVisualization: the frames pushed so far
    activeEdges   \* buildVisualization: the edges added so far

VARIABLES
    props,        \* VisualizationPlayer: the key (year, day, visualization.id)
    mounted,      \* VisualizationPlayer: the component is mounted
    data,         \* VisualizationPlayer: useState data
    frameIndex,   \* VisualizationPlayer: useState frameIndex
    isPlaying,    \* VisualizationPlayer: useState isPlaying
    error,        \* VisualizationPlayer: useState error
    requests,     \* VisualizationPlayer: the fetches started, in order, each
                  \* with the cancelled flag of its effect run
    lastEvent     \* history: the last event the player handled

VARIABLES
    \* GET of the visuals route: the request and what the file system holds
    routeReq,
    \* GET of the visuals route: the response
    routeRes

VARIABLES
    \* grid-fill buildVisualization: the working grid
    working,
    \* grid-fill buildVisualization: the queue of [row, col]
    queue,
    \* grid-fill buildVisualization: wave
    wave,
    \* grid-fill buildVisualization: currentWaveRemaining
    currentWaveRemaining,
    \* grid-fill buildVisualization: nextWaveAdds
    nextWaveAdds,
    \* grid-fill buildVisualization: frames
    fillFrames,
    \* grid-fill buildVisualization: position in the function
    fillPc,
    \* history: for each queue entry, the generation of the removal that pushed it plus one (0 for a seed)
    queueGen,
    \* history: the cells removed, each with the wave it was marked with and the generation of its queue entry
    removed

VARIABLES
    \* day 7: the grid array the caller passes to part1 and part2
    grid,
    \* history: the day 7 calls made on grid, each with the value returned
    calls,
    \* history: the grid as it was read
    original

VARIABLES
    \* day 11 part1: the input lines, each the tokens name, ":", outputs
    lines,
    \* day 11 part1: graph
    graph,
    \* day 11 part1: start
    start,
    \* day 11 part1: memo
    memo,
    \* day 11 part1: totalPaths
    totalPaths,
    \* day 11 part1: position of the loop over start
    outputIndex,
    \* day 11 part1: the value returned
    returned,
    \* day 11 part1: position in the function
    day11Pc

VARIABLES
    \* day 5 part2: the input lines, each the sequence of its tokens
    day5Lines,
    \* day 5 part2: ranges, sorted
    ranges,
    \* day 5 part2: the merged list
    mergedRanges,
    \* day 5 part2: position of the loop over ranges
    rangeIndex,
    \* day 5 part2: the value returned
    day5Returned,
    \* day 5 part2: position in the function
    day5Pc

day8Vars == <<boxes, pairs, parent, size, pc, k, connections, components, result,
              attempts, last, alt, run, frames, activeEdges>>

playerVars == <<props, mounted, data, frameIndex, isPlaying, error, requests,
                lastEvent>>

routeVars == <<routeReq, routeRes>>

fillVars == <<working, queue, wave, currentWaveRemaining, nextWaveAdds, fillFrames, fillPc, queueGen, removed>>

day7Vars == <<grid, calls, original>>

day11Vars == <<lines, graph, start, memo, totalPaths, outputIndex, returned, day11Pc>>

day5Vars == <<day5Lines, ranges, mergedRanges, rangeIndex, day5Returned, day5Pc>>

\* The variables of the programs other than day 8.
others == <<playerVars, routeVars, fillVars, day7Vars, day11Vars, day5Vars>>

\* The variables of the programs other than the player.
exceptPlayer == <<day8Vars, routeVars, fillVars, day7Vars, day11Vars, day5Vars>>

\* The variables of the programs other than route.
exceptRoute == <<day8Vars, playerVars, fillVars, day7Vars, day11Vars, day5Vars>>

\* The variables of the programs other than fill.
exceptFill == <<day8Vars, playerVars, routeVars, day7Vars, day11Vars, day5Vars>>

\* The variables of the programs other than day7.
exceptDay7 == <<day8Vars, playerVars, routeVars, fillVars, day11Vars, day5Vars>>

\* The variables of the programs other than day11.
exceptDay11 == <<day8Vars, playerVars, routeVars, fillVars, day7Vars, day5Vars>>

\* The variables of the programs other than day5.
exceptDay5 == <<day8Vars, playerVars, routeVars, fillVars, day7Vars, day11Vars>>

vars == <<day8Vars, others>>

\* useState<SupportedVisualization | null>(null)
NoData == [null |-> TRUE, format |-> "", frames |-> <<>>]

\* useState<string | null>(null)
NoError == [null |-> TRUE, message |-> ""]

\* No VisualizationPlayer is rendered.
PlayerIdle ==
    /\ props = 0
    /\ mounted = FALSE
    /\ data = NoData
    /\ frameIndex = [nan |-> FALSE, val |-> 0]
    /\ isPlaying = FALSE
    /\ error = NoError
    /\ requests = <<>>
    /\ lastEvent = [op |-> "none"]

\* Program route is not running.
RouteIdle ==
    /\ routeReq = [stage |-> "none"]
    /\ routeRes = [status |-> 0]

\* Program fill is not running.
FillIdle ==
    /\ working = <<>>
    /\ queue = <<>>
    /\ wave = 0
    /\ currentWaveRemaining = 0
    /\ nextWaveAdds = 0
    /\ fillFrames = <<>>
    /\ fillPc = "idle"
    /\ queueGen = <<>>
    /\ removed = <<>>

\* Program day7 is not running.
Day7Idle ==
    /\ grid = <<>>
    /\ calls = <<>>
    /\ original = <<>>

\* Program day11 is not running.
Day11Idle ==
    /\ lines = <<>>
    /\ graph = <<>>
    /\ start = [defined |-> FALSE, outputs |-> <<>>]
    /\ memo = <<>>
    /\ totalPaths = 0
    /\ outputIndex = 0
    /\ returned = 0
    /\ day11Pc = "idle"

\* Program day5 is not running.
Day5Idle ==
    /\ day5Lines = <<>>
    /\ ranges = <<>>
    /\ mergedRanges = <<>>
    /\ rangeIndex = 0
    /\ day5Returned = 0
    /\ day5Pc = "idle"

\* The programs other than day 8 and other than program p are not running.
IdleExcept(p) ==
    /\ IF p = "player" THEN TRUE ELSE PlayerIdle
    /\ IF p = "route" THEN TRUE ELSE RouteIdle
    /\ IF p = "fill" THEN TRUE ELSE FillIdle
    /\ IF p = "day7" THEN TRUE ELSE Day7Idle
    /\ IF p = "day11" THEN TRUE ELSE Day11Idle
    /\ IF p = "day5" THEN TRUE ELSE Day5Idle

\* The programs other than day 8 are not running.
OthersIdle == IdleExcept("day8")

\* Largest forest explored by arbitrary union/find calls.
MaxUF == 4

\* Largest number of input lines drawn from PointSet.
MaxN == 5

\* Largest number of input lines drawn from PointSet for the runs that are
\* made twice or on two forests side by side.
MaxSmall == 4

\* Math.min(1000, length / 2)
MaxConnections == 1000

Min(a, b) == IF a < b THEN a ELSE b

Identity(n) == [i \in 0..(n - 1) |-> i]

Ones(n) == [i \in 0..(n - 1) |-> 1]

Len0(f) == Cardinality(DOMAIN f)

-----------------------------------------------------------------------------
(* class UnionFind *)

\* find(x): the recursion of lines 84-89.  A call nested deeper than the
\* number of indices has revisited an index, so the recursion never bottoms
\* out and the engine throws RangeError: threw is TRUE and no parent entry
\* on the unfinished path is written.
RECURSIVE findRec(_, _, _)
findRec(p, x, depth) ==
    IF depth > Len0(p)
    THEN [parent |-> p, ret |-> x, threw |-> TRUE]
    ELSE IF p[x] # x
         THEN LET r == findRec(p, p[x], depth + 1)
              IN  IF r.threw
                  THEN [parent |-> r.parent, ret |-> x, threw |-> TRUE]
                  ELSE [parent |-> [r.parent EXCEPT ![x] = r.ret],
                        ret |-> r.ret, threw |-> FALSE]
         ELSE [parent |-> p, ret |-> p[x], threw |-> FALSE]

\* Mutant of find: the path is left as it was.
findNoCompression(p, x) == [findRec(p, x, 0) EXCEPT !.parent = p]

\* Mutant of find: the parent read before the recursive call is returned.
findReturnsOldParent(p, x) == [findRec(p, x, 0) EXCEPT !.ret = p[x]]

find(p, x) == findRec(p, x, 0)

\* Mutant of unionRoots: the arguments are linked, not their roots.
unionRootsNoFind(p, a, b) == [parent |-> p, ra |-> a, rb |-> b, threw |-> FALSE]

\* let ra = this.find(a); let rb = this.find(b);
unionRoots(p, a, b) ==
    LET fa == find(p, a)
        fb == find(fa.parent, b)
    IN  IF fa.threw
        THEN [parent |-> fa.parent, ra |-> a, rb |-> b, threw |-> TRUE]
        ELSE [parent |-> fb.parent, ra |-> fa.ret, rb |-> fb.ret,
              threw |-> fb.threw]

\* Mutant of sameSet: the early return is missing.
sameSetNever(ra, rb) == FALSE

\* if (ra === rb) return false;
sameSet(ra, rb) == ra = rb

\* Mutant of swapRoots: the larger root goes under the smaller one.
swapRootsInverted(s, ra, rb) == s[ra] > s[rb]

\* Mutant of swapRoots: the roots are swapped on a tie as well.
swapRootsOnTie(s, ra, rb) == s[ra] <= s[rb]

\* if (this.size[ra] < this.size[rb]) [ra, rb] = [rb, ra];
swapRoots(s, ra, rb) == s[ra] < s[rb]

\* Mutant of mergedSize: the surviving root counts one more index.
mergedSizePlusOne(s, ra, rb) == [s EXCEPT ![ra] = s[ra] + 1]

\* this.size[ra] += this.size[rb];
mergedSize(s, ra, rb) == [s EXCEPT ![ra] = s[ra] + s[rb]]

\* union(a, b): the forest after the call and the value returned.
union(p, s, a, b) ==
    LET f == unionRoots(p, a, b)
    IN  IF f.threw
        THEN [parent |-> f.parent, size |-> s, ret |-> FALSE, threw |-> TRUE]
        ELSE IF sameSet(f.ra, f.rb)
        THEN [parent |-> f.parent, size |-> s, ret |-> FALSE, threw |-> FALSE]
        ELSE LET ra == IF swapRoots(s, f.ra, f.rb) THEN f.rb ELSE f.ra
                 rb == IF swapRoots(s, f.ra, f.rb) THEN f.ra ELSE f.rb
             IN  [parent |-> [f.parent EXCEPT ![rb] = ra],
                  size |-> mergedSize(s, ra, rb),
                  ret |-> TRUE, threw |-> FALSE]

\* Mutant of NewUnionFind: one forest, kept between invocations.
NewUnionFindShared(n) ==
    IF Len0(parent) = n
    THEN [parent |-> parent, size |-> size]
    ELSE [parent |-> Identity(n), size |-> Ones(n)]

\* constructor(n)
NewUnionFind(n) == [parent |-> Identity(n), size |-> Ones(n)]

\* union(a, b) with the other tie-break: the roots are swapped when
\* size[ra] <= size[rb], so that an equal-size merge attaches root(a) under
\* root(b).  Everything else is the union of lines 91-101.
unionTieToB(p, s, a, b) ==
    LET fa == find(p, a)
        fb == find(fa.parent, b)
    IN  IF fa.threw \/ fb.threw
        THEN [parent |-> fb.parent, size |-> s, ret |-> FALSE, threw |-> TRUE]
        ELSE IF fa.ret = fb.ret
        THEN [parent |-> fb.parent, size |-> s, ret |-> FALSE, threw |-> FALSE]
        ELSE LET ra == IF s[fa.ret] <= s[fb.ret] THEN fb.ret ELSE fa.ret
                 rb == IF s[fa.ret] <= s[fb.ret] THEN fa.ret ELSE fb.ret
             IN  [parent |-> [fb.parent EXCEPT ![rb] = ra],
                  size |-> [s EXCEPT ![ra] = s[ra] + s[rb]],
                  ret |-> TRUE, threw |-> FALSE]

-----------------------------------------------------------------------------
(* Reading a forest without changing it *)

\* The index reached from x after n parent links.
RECURSIVE Walk(_, _, _)
Walk(p, x, n) == IF n = 0 THEN x ELSE Walk(p, p[x], n - 1)

IsRoot(p, x) == p[x] = x

\* The root the parent links lead to from x.
RootOf(p, x) == Walk(p, x, Len0(p))

\* y lies on the parent path from x, x and the root included.
OnPath(p, x, y) == \E n \in 0..Len0(p) : Walk(p, x, n) = y

\* The sets of the forest, read off the parent links.
WalkPartition(p) == {{y \in DOMAIN p : RootOf(p, y) = RootOf(p, x)} : x \in DOMAIN p}

\* Every index reaches a self-parented root within Len0(p) links.
Acyclic(p) == \A x \in DOMAIN p : IsRoot(p, Walk(p, x, Len0(p)))

-----------------------------------------------------------------------------
(* Arbitrary union and find calls on a fresh forest *)

\* The first invocation, nothing run before it.
FirstRun == [n |-> 1, fn |-> "none", first |-> <<>>]

NoCall == [op |-> "none", a |-> 0, b |-> 0, ret |-> 0, flag |-> FALSE,
           threw |-> FALSE, parent |-> <<>>, size |-> <<>>]

UFInit ==
    /\ \E n \in 1..MaxUF : /\ parent = NewUnionFind(n).parent
                           /\ size = NewUnionFind(n).size
                           /\ alt = [parent |-> Identity(n), size |-> Ones(n),
                                     ret |-> FALSE, components |-> 0,
                                     result |-> [nan |-> FALSE, val |-> 0]]
    /\ run = FirstRun
    /\ boxes = <<>>
    /\ pairs = <<>>
    /\ pc = "uf"
    /\ k = 0
    /\ connections = 0
    /\ components = 0
    /\ result = [nan |-> FALSE, val |-> 0]
    /\ attempts = <<>>
    /\ last = NoCall
    /\ frames = <<>>
    /\ activeEdges = <<>>
    /\ OthersIdle

Union(a, b) ==
    /\ pc = "uf"
    /\ LET u == union(parent, size, a, b)
       IN  /\ parent' = u.parent
           /\ size' = u.size
           /\ last' = [op |-> "union", a |-> a, b |-> b, ret |-> 0,
                       flag |-> u.ret, threw |-> u.threw,
                       parent |-> parent, size |-> size]
    /\ LET v == unionTieToB(alt.parent, alt.size, a, b)
       IN  alt' = [alt EXCEPT !.parent = v.parent, !.size = v.size, !.ret = v.ret]
    /\ UNCHANGED <<others, frames, activeEdges, boxes, pairs, pc, k, connections, components, result, attempts,
                   run>>

Find(x) ==
    /\ pc = "uf"
    /\ LET f == find(parent, x)
       IN  /\ parent' = f.parent
           /\ last' = [op |-> "find", a |-> x, b |-> x, ret |-> f.ret,
                       flag |-> FALSE, threw |-> f.threw,
                       parent |-> parent, size |-> size]
    /\ alt' = [alt EXCEPT !.parent = find(alt.parent, x).parent]
    /\ UNCHANGED <<others, frames, activeEdges, boxes, pairs, size, pc, k, connections, components, result,
                   attempts, run>>

UFNext ==
    \/ \E a \in DOMAIN parent, b \in DOMAIN parent : Union(a, b)
    \/ \E x \in DOMAIN parent : Find(x)

SpecUF == UFInit /\ [][UFNext]_vars

-----------------------------------------------------------------------------
(* createSortedPairs and distanceSqrt *)

distanceSqrt(a, b) ==
    LET dx == a[1] - b[1]
        dy == a[2] - b[2]
        dz == a[3] - b[3]
    IN  dx * dx + dy * dy + dz * dz

\* Mutant of innerStart: the inner loop starts at i.
innerStartAtI(i) == i

\* for (let j = i + 1; ...
innerStart(i) == i + 1

\* The two nested loops that push {i, j, d}: acc after the iterations from
\* (i, j) on.
RECURSIVE pushPairs(_, _, _, _)
pushPairs(bx, i, j, acc) ==
    IF i >= Len0(bx) THEN acc
    ELSE IF j >= Len0(bx) THEN pushPairs(bx, i + 1, innerStart(i + 1), acc)
    ELSE pushPairs(bx, i, j + 1,
                   Append(acc, [i |-> i, j |-> j, d |-> distanceSqrt(bx[i], bx[j])]))

\* Mutant of compareD: a comparator that never answers 0.
compareDNoTie(a, b) == IF a.d < b.d THEN -1 ELSE 1

\* (a, b) => a.d - b.d
compareD(a, b) == a.d - b.d

\* Array.prototype.sort is stable: x goes behind every element that does not
\* compare greater than it.
RECURSIVE insertPair(_, _)
insertPair(s, x) ==
    IF s = <<>> THEN <<x>>
    ELSE IF compareD(Head(s), x) > 0 THEN <<x>> \o s
    ELSE <<Head(s)>> \o insertPair(Tail(s), x)

RECURSIVE sortPairsFrom(_, _)
sortPairsFrom(s, acc) ==
    IF s = <<>> THEN acc ELSE sortPairsFrom(Tail(s), insertPair(acc, Head(s)))

\* pairs.sort((a, b) => a.d - b.d)
sortPairs(s) == sortPairsFrom(s, <<>>)

createSortedPairs(bx) == sortPairs(pushPairs(bx, 0, innerStart(0), <<>>))

-----------------------------------------------------------------------------
(* The inputs: the boxes parsed from the lines *)

PointSet == {<<0, 0, 0>>, <<1, 0, 0>>, <<2, 0, 0>>, <<-1, 2, 2>>}

Scenario1 == [i \in 0..3 |->
    CASE i = 0 -> <<0, 0, 0>> [] i = 1 -> <<1, 0, 0>>
      [] i = 2 -> <<10, 10, 10>> [] i = 3 -> <<11, 10, 10>>]

Scenario2 == [i \in 0..2 |->
    CASE i = 0 -> <<0, 0, 0>> [] i = 1 -> <<1, 0, 0>> [] i = 2 -> <<2, 0, 0>>]

\* Three points of one cluster, as offsets from the cluster's centre.
ClusterShapes ==
    { <<<<0, 0, 0>>, <<1, 0, 0>>, <<0, 1, 0>>>>,
      <<<<0, 0, 0>>, <<1, 0, 0>>, <<2, 0, 0>>>>,
      <<<<0, 0, 0>>, <<0, 0, 0>>, <<0, 0, 0>>>>,
      <<<<0, 0, 0>>, <<1, 0, 0>>, <<1, 3, 0>>>> }

ClusterCentres == <<<<0, 0, 0>>, <<100, 0, 0>>, <<0, 100, 50>>>>

\* The two index layouts of three clusters of three: cluster by cluster, and
\* interleaved.
ClusterLayouts == {[i \in 0..8 |-> i \div 3], [i \in 0..8 |-> i % 3]}

PlacePoint(c, o) == <<c[1] + o[1], c[2] + o[2], c[3] + o[3]>>

\* Nine points in three clusters of three.
ClusterInputs ==
    { [i \in 0..8 |->
          LET c == lay[i]
              m == Cardinality({h \in 0..(i - 1) : lay[h] = c})
          IN  PlacePoint(ClusterCentres[c + 1], sh[c + 1][m + 1])]
      : lay \in ClusterLayouts, sh \in ClusterShapes \X ClusterShapes \X ClusterShapes }

\* lines.map(line => line.split(",").map(Number)): the boxes of an input.
Inputs ==
    UNION {[0..(n - 1) -> PointSet] : n \in 0..MaxN}
        \cup {Scenario1, Scenario2} \cup ClusterInputs

-----------------------------------------------------------------------------
(* part1: Query A *)

NotANumber == [nan |-> TRUE, val |-> 0]

Number(v) == [nan |-> FALSE, val |-> v]

\* Mutant of withinBudget: the division by two is missing.
withinBudgetNoHalf(c, length) == c < Min(MaxConnections, length)

\* connections < Math.min(1000, length / 2), the division being exact
withinBudget(c, length) == 2 * c < Min(2 * MaxConnections, length)

\* Mutant of countConnection: only a merge consumes budget.
countConnectionIfMerged(c, merged) == IF merged THEN c + 1 ELSE c

\* connections++, whatever uf.union(i, j) returned
countConnection(c, merged) == c + 1

\* The loop over i of lines 26-29: keys are the roots in the order the Map
\* first saw them, count their values.
RECURSIVE countCircuits(_, _, _, _)
countCircuits(p, i, keys, count) ==
    IF i >= Len0(p) THEN [parent |-> p, keys |-> keys, count |-> count, threw |-> FALSE]
    ELSE LET f == find(p, i)
         IN  IF f.threw
             THEN [parent |-> f.parent, keys |-> keys, count |-> count, threw |-> TRUE]
             ELSE IF \E h \in 1..Len(keys) : keys[h] = f.ret
             THEN countCircuits(f.parent, i + 1, keys,
                                [count EXCEPT ![f.ret] = count[f.ret] + 1])
             ELSE countCircuits(f.parent, i + 1, Append(keys, f.ret),
                                [r \in DOMAIN count \cup {f.ret} |->
                                    IF r = f.ret THEN 1 ELSE count[r]])

\* Mutant of compareSizes: ascending.
compareSizesAscending(a, b) == a - b

\* (a, b) => b - a
compareSizes(a, b) == b - a

RECURSIVE insertSize(_, _)
insertSize(s, x) ==
    IF s = <<>> THEN <<x>>
    ELSE IF compareSizes(Head(s), x) > 0 THEN <<x>> \o s
    ELSE <<Head(s)>> \o insertSize(Tail(s), x)

RECURSIVE sortSizesFrom(_, _)
sortSizesFrom(s, acc) ==
    IF s = <<>> THEN acc ELSE sortSizesFrom(Tail(s), insertSize(acc, Head(s)))

\* Array.from(circuitSizes.values()).sort((a, b) => b - a)
sortSizes(keys, count) == sortSizesFrom([h \in 1..Len(keys) |-> count[keys[h]]], <<>>)

\* sizes[0] * sizes[1] * sizes[2]: a missing entry is undefined and the
\* product NaN.
productOfThree(sizes) ==
    IF Len(sizes) >= 3 THEN Number(sizes[1] * sizes[2] * sizes[3]) ELSE NotANumber

QueryInit ==
    /\ boxes \in Inputs
    /\ pairs = <<>>
    /\ parent = <<>>
    /\ size = <<>>
    /\ pc = "start"
    /\ k = 0
    /\ connections = 0
    /\ components = 0
    /\ result = Number(0)
    /\ attempts = <<>>
    /\ last = NoCall
    /\ frames = <<>>
    /\ activeEdges = <<>>
    /\ OthersIdle
    /\ alt = [parent |-> <<>>, size |-> <<>>, ret |-> FALSE, components |-> 0,
              result |-> Number(0)]
    /\ run = FirstRun

\* Lines 12-17: the candidate list, the forest, connections = 0.
Part1Start ==
    /\ pc = "start"
    /\ pairs' = createSortedPairs(boxes)
    /\ parent' = NewUnionFind(Len0(boxes)).parent
    /\ size' = NewUnionFind(Len0(boxes)).size
    /\ connections' = 0
    /\ k' = 0
    /\ pc' = "loop"
    /\ run.n = 2 => run.first.fn = "part1"
    /\ run' = [run EXCEPT !.fn = "part1"]
    /\ alt' = [alt EXCEPT !.parent = Identity(Len0(boxes)), !.size = Ones(Len0(boxes))]
    /\ UNCHANGED <<others, frames, activeEdges, boxes, components, result, attempts, last>>

\* One iteration of the loop of lines 19-23.
Part1Union ==
    /\ pc = "loop"
    /\ k < Len(pairs) /\ withinBudget(connections, Len0(boxes))
    /\ LET e == pairs[k + 1]
           u == union(parent, size, e.i, e.j)
       IN  /\ parent' = u.parent
           /\ size' = u.size
           /\ attempts' = Append(attempts, [i |-> e.i, j |-> e.j, merged |-> u.ret])
           /\ connections' = IF u.threw THEN connections
                             ELSE countConnection(connections, u.ret)
           /\ k' = IF u.threw THEN k ELSE k + 1
           /\ pc' = IF u.threw THEN "threw" ELSE "loop"
           /\ LET v == unionTieToB(alt.parent, alt.size, e.i, e.j)
              IN  alt' = [alt EXCEPT !.parent = v.parent, !.size = v.size,
                                     !.ret = v.ret]
    /\ UNCHANGED <<others, frames, activeEdges, boxes, pairs, components, result, last, run>>

\* The loop has ended: lines 25-32.
Part1Return ==
    /\ pc = "loop"
    /\ ~(k < Len(pairs) /\ withinBudget(connections, Len0(boxes)))
    /\ LET c == countCircuits(parent, 0, <<>>, <<>>)
       IN  /\ parent' = c.parent
           /\ result' = IF c.threw THEN result
                        ELSE productOfThree(sortSizes(c.keys, c.count))
           /\ pc' = IF c.threw THEN "threw" ELSE "done"
    /\ LET c == countCircuits(alt.parent, 0, <<>>, <<>>)
       IN  alt' = [alt EXCEPT !.parent = c.parent,
                              !.result = productOfThree(sortSizes(c.keys, c.count))]
    /\ UNCHANGED <<others, frames, activeEdges, boxes, pairs, size, k, connections, components, attempts, last,
                   run>>

Part1Next == Part1Start \/ Part1Union \/ Part1Return

SpecPart1 == QueryInit /\ [][Part1Next]_vars

-----------------------------------------------------------------------------
(* The forest as find reports it *)

Roots(p) == {r \in DOMAIN p : IsRoot(p, r)}

\* The indices whose find is r.
FindSet(p, r) == {x \in DOMAIN p : find(p, x).ret = r}

\* The sets of the forest, each the indices sharing one find result.
FindPartition(p) == {FindSet(p, find(p, x).ret) : x \in DOMAIN p}

\* C1: starting from N singleton sets, after any sequence of union(a, b)
\* calls every index belongs to exactly one set (its find ends, without
\* throwing, at one self-parented root, and the roots' sets are pairwise
\* disjoint), and for every root r, size[r] is the number of indices x with
\* find(x) = r.
C1_PartitionAndSizes ==
    pc = "uf" =>
        /\ \A x \in DOMAIN parent :
              /\ ~find(parent, x).threw
              /\ Cardinality({r \in Roots(parent) : x \in FindSet(parent, r)}) = 1
        /\ \A r \in Roots(parent) :
              size[r] = Cardinality(FindSet(parent, r))

\* A merge has just built a set of three or more indices out of a set of two
\* or more, and another set exists.
C1_Witness ==
    /\ pc = "uf"
    /\ last.op = "union"
    /\ last.flag
    /\ \E r \in Roots(parent) : size[r] >= 3
    /\ Cardinality(Roots(parent)) >= 2

\* C2: union(a, b) returns true exactly when find(a) # find(b) held before
\* the call (and false exactly when a and b were in one set); after a call
\* that returned true, find(a) = find(b), the two former sets are one set,
\* and every other set has exactly the members it had.
C2_UnionMerges ==
    (pc = "uf" /\ last.op = "union") =>
        LET Sa == FindSet(last.parent, find(last.parent, last.a).ret)
            Sb == FindSet(last.parent, find(last.parent, last.b).ret)
        IN  /\ last.flag <=> (find(last.parent, last.a).ret # find(last.parent, last.b).ret)
            /\ last.flag =>
                  /\ find(parent, last.a).ret = find(parent, last.b).ret
                  /\ FindPartition(parent) =
                        (FindPartition(last.parent) \ {Sa, Sb}) \cup {Sa \cup Sb}

\* A union of a set of two indices with another set returned true while a
\* third set stood by.
C2_Witness ==
    /\ pc = "uf"
    /\ last.op = "union"
    /\ last.flag
    /\ last.size[find(last.parent, last.a).ret] = 2
    /\ Cardinality(FindPartition(parent)) >= 2

\* A union of two indices of one set of three returned false.
C2_WitnessFalse ==
    /\ pc = "uf"
    /\ last.op = "union"
    /\ ~last.flag
    /\ last.a # last.b
    /\ Cardinality(FindSet(last.parent, find(last.parent, last.a).ret)) >= 3

\* C3: in every state reached by union and find calls, following parent
\* links from any index reaches a self-parented root in at most N steps, and
\* no find call fails to terminate.
C3_Acyclic ==
    pc = "uf" =>
        /\ Acyclic(parent)
        /\ ~last.threw
        /\ \A x \in DOMAIN parent : ~find(parent, x).threw

\* find(x) has just returned after following two parent links from x.
C3_Witness ==
    /\ pc = "uf"
    /\ last.op = "find"
    /\ ~last.threw
    /\ last.parent[last.a] # last.a
    /\ last.parent[last.parent[last.a]] # last.parent[last.a]
    /\ last.ret = last.parent[last.parent[last.a]]
    /\ parent[last.a] = last.ret

-----------------------------------------------------------------------------
(* The candidate list *)

\* The position of pair (i, j) in the candidate list, 0 when absent.
PositionOf(i, j) ==
    IF \E h \in 1..Len(pairs) : pairs[h].i = i /\ pairs[h].j = j
    THEN CHOOSE h \in 1..Len(pairs) : pairs[h].i = i /\ pairs[h].j = j
    ELSE 0

\* C4: createSortedPairs returns the pairs ascending by squared distance, two
\* pairs of equal squared distance in their enumeration order (i ascending,
\* then j ascending); for Scenario 1 pair (0,1) precedes pair (2,3).
C4_SortedStable ==
    pc # "start" =>
        /\ \A g, h \in 1..Len(pairs) :
              g < h =>
                 /\ pairs[g].d <= pairs[h].d
                 /\ pairs[g].d = pairs[h].d =>
                       \/ pairs[g].i < pairs[h].i
                       \/ pairs[g].i = pairs[h].i /\ pairs[g].j < pairs[h].j
        /\ boxes = Scenario1 =>
              /\ PositionOf(0, 1) = 1
              /\ PositionOf(2, 3) = 2

\* The candidate list of Scenario 1 has been built; it holds two pairs of
\* squared distance 1.
C4_Witness ==
    /\ pc # "start"
    /\ boxes = Scenario1
    /\ Cardinality({h \in 1..Len(pairs) : pairs[h].d = 1}) = 2

\* C5: for N points createSortedPairs holds every pair (i, j) with
\* 0 <= i < j < N exactly once, N*(N-1)/2 entries and none with i >= j, each
\* weighted with the non-negative sum of the squared coordinate differences
\* of points i and j.
C5_AllPairsOnce ==
    pc # "start" =>
        LET n == Len0(boxes)
        IN  /\ Len(pairs) = (n * (n - 1)) \div 2
            /\ \A i, j \in 0..(n - 1) :
                  i < j => Cardinality({h \in 1..Len(pairs) :
                                           pairs[h].i = i /\ pairs[h].j = j}) = 1
            /\ \A h \in 1..Len(pairs) :
                  LET a == boxes[pairs[h].i]
                      b == boxes[pairs[h].j]
                  IN  /\ 0 <= pairs[h].i
                      /\ pairs[h].i < pairs[h].j
                      /\ pairs[h].j < n
                      /\ pairs[h].d >= 0
                      /\ pairs[h].d = (a[1] - b[1]) * (a[1] - b[1])
                                    + (a[2] - b[2]) * (a[2] - b[2])
                                    + (a[3] - b[3]) * (a[3] - b[3])

\* The candidate list of five points has been built, with coincident points
\* (weight 0) and points that differ in all three coordinates.
C5_Witness ==
    /\ pc # "start"
    /\ Len(pairs) = 10
    /\ \E h \in 1..Len(pairs) : pairs[h].d = 0
    /\ \E h \in 1..Len(pairs) : pairs[h].d = 17

-----------------------------------------------------------------------------
(* Query A *)

Merges == Cardinality({h \in 1..Len(attempts) : attempts[h].merged})

\* C6: part1 performs exactly K = min(1000, floor(N/2)) union attempts, on
\* the first K pairs of the sorted candidate list, for every N.
C6_FloorBudget ==
    pc = "done" =>
        LET K == Min(MaxConnections, Len0(boxes) \div 2)
        IN  /\ Len(attempts) = K
            /\ connections = K
            /\ \A h \in 1..Len(attempts) :
                  attempts[h].i = pairs[h].i /\ attempts[h].j = pairs[h].j

AppliedEdges == {<<attempts[h].i, attempts[h].j>> : h \in 1..Len(attempts)}

\* The indices one edge of E away from S, with S.
Grow(E, S) == S \cup {y \in DOMAIN boxes :
                         \E x \in S : <<x, y>> \in E \/ <<y, x>> \in E}

RECURSIVE Closure(_, _)
Closure(E, S) == IF Grow(E, S) = S THEN S ELSE Closure(E, Grow(E, S))

\* The connected components of the graph on the indices with edges E.
Components(E) == {Closure(E, {x}) : x \in DOMAIN boxes}

Maximum(S) == CHOOSE m \in S : \A x \in S : x <= m

\* The largest product of the sizes of three different sets of P.
ThreeLargestProduct(P) ==
    Maximum({Cardinality(A) * Cardinality(B) * Cardinality(C) :
                <<A, B, C>> \in {t \in P \X P \X P :
                                    t[1] # t[2] /\ t[1] # t[3] /\ t[2] # t[3]}})

\* C8: when at least three components exist after the budget is spent,
\* part1 returns the product of the sizes of the three largest components of
\* the partition induced by the applied unions; that partition is the one
\* find reports.
C8_ThreeLargest ==
    (pc = "done" /\ Cardinality(Components(AppliedEdges)) >= 3) =>
        /\ ~result.nan
        /\ result.val = ThreeLargestProduct(Components(AppliedEdges))
        /\ FindPartition(parent) = Components(AppliedEdges)

\* part1 has returned with four or more components, among them a singleton
\* and a larger one.
C8_Witness ==
    /\ pc = "done"
    /\ ~result.nan
    /\ Cardinality(Components(AppliedEdges)) >= 4
    /\ \E A \in Components(AppliedEdges) : Cardinality(A) = 1
    /\ \E A \in Components(AppliedEdges) : Cardinality(A) >= 3

\* Nine points in three clusters of three, every distance between clusters
\* larger than every distance inside a cluster.
Clustered(bx) ==
    /\ Len0(bx) = 9
    /\ \E lay \in ClusterLayouts :
          \A a, b, c, d \in 0..8 :
             (a < b /\ c < d /\ lay[a] = lay[b] /\ lay[c] # lay[d])
                => distanceSqrt(bx[a], bx[b]) < distanceSqrt(bx[c], bx[d])

\* C9 as stated: for 9 points in 3 well-separated clusters of 3, part1 under
\* its fixed budget returns 3*3*3 = 27.
C9_Returns27 ==
    (pc = "done" /\ Clustered(boxes)) => result = Number(27)

\* C9 as amended: for 9 points in 3 well-separated clusters of 3, part1
\* under its fixed budget leaves at least four components and returns the
\* product of the three largest, which is at most 3*3*2 = 18.
C9_AtMost18 ==
    (pc = "done" /\ Clustered(boxes)) =>
        /\ Cardinality(Components(AppliedEdges)) >= 4
        /\ ~result.nan
        /\ result.val <= 18
        /\ result.val = ThreeLargestProduct(Components(AppliedEdges))

\* part1 has returned 18 for three clusters of three.
C9_Witness ==
    /\ pc = "done"
    /\ Clustered(boxes)
    /\ result = Number(18)

-----------------------------------------------------------------------------
(* part2: Query B *)

\* Mutant of stillApart: the scan does not stop at one component.
stillApartAlways(c) == TRUE

\* Mutant of stillApart: the scan stops while two components are left.
stillApartAboveTwo(c) == c > 2

\* ... && components > 1
stillApart(c) == c > 1

\* boxes[i][0] * boxes[j][0]
bridgeProduct(bx, i, j) == bx[i][1] * bx[j][1]

\* Lines 41-47: the candidate list, the forest, components and result.
Part2Start ==
    /\ pc = "start"
    /\ pairs' = createSortedPairs(boxes)
    /\ parent' = NewUnionFind(Len0(boxes)).parent
    /\ size' = NewUnionFind(Len0(boxes)).size
    /\ components' = Len0(boxes)
    /\ result' = Number(0)
    /\ k' = 0
    /\ pc' = "scan"
    /\ run.n = 2 => run.first.fn = "part2"
    /\ run' = [run EXCEPT !.fn = "part2"]
    /\ alt' = [alt EXCEPT !.parent = Identity(Len0(boxes)), !.size = Ones(Len0(boxes)),
                           !.components = Len0(boxes), !.result = Number(0)]
    /\ UNCHANGED <<others, frames, activeEdges, boxes, connections, attempts, last>>

\* One iteration of the loop of lines 48-56.
Part2Union ==
    /\ pc = "scan"
    /\ k < Len(pairs) /\ stillApart(components)
    /\ LET e == pairs[k + 1]
           u == union(parent, size, e.i, e.j)
           c == IF u.ret THEN components - 1 ELSE components
       IN  /\ parent' = u.parent
           /\ size' = u.size
           /\ attempts' = Append(attempts, [i |-> e.i, j |-> e.j, merged |-> u.ret])
           /\ components' = c
           /\ result' = IF u.ret /\ c = 1
                        THEN Number(bridgeProduct(boxes, e.i, e.j))
                        ELSE result
           /\ k' = IF u.threw THEN k ELSE k + 1
           /\ pc' = IF u.threw THEN "threw" ELSE "scan"
           /\ LET v == unionTieToB(alt.parent, alt.size, e.i, e.j)
                  d == IF v.ret THEN alt.components - 1 ELSE alt.components
              IN  alt' = [alt EXCEPT !.parent = v.parent, !.size = v.size,
                                     !.ret = v.ret, !.components = d,
                                     !.result = IF v.ret /\ d = 1
                                                THEN Number(bridgeProduct(boxes, e.i, e.j))
                                                ELSE alt.result]
    /\ UNCHANGED <<others, frames, activeEdges, boxes, pairs, connections, last, run>>

\* The loop has ended: return result.
Part2Return ==
    /\ pc = "scan"
    /\ ~(k < Len(pairs) /\ stillApart(components))
    /\ pc' = "done2"
    /\ UNCHANGED <<others, frames, activeEdges, boxes, pairs, parent, size, k, connections, components,
                   result, attempts, last, alt, run>>

Part2Next == Part2Start \/ Part2Union \/ Part2Return

SpecPart2 == QueryInit /\ [][Part2Next]_vars

\* The edges passed to union by the first n attempts.
EdgesUpTo(n) == {<<attempts[h].i, attempts[h].j>> : h \in 1..n}

\* C10: part2 walks the sorted candidate list; at the first successful union
\* that brings the component count from 2 to 1 the result is
\* x(point i) * x(point j) of that pair, and no later pair is ever passed
\* to union.  For Scenario 2 the result is 2 and (0,2) is never evaluated.
C10_BridgingEdge ==
    /\ pc \in {"scan", "done2"} =>
          /\ \A h \in 1..Len(attempts) :
                /\ attempts[h].i = pairs[h].i /\ attempts[h].j = pairs[h].j
                /\ h < Len(attempts) => Cardinality(Components(EdgesUpTo(h))) >= 2
          /\ (Len(attempts) > 0 /\ Cardinality(Components(AppliedEdges)) = 1) =>
                LET n == Len(attempts)
                IN  /\ attempts[n].merged
                    /\ Cardinality(Components(EdgesUpTo(n - 1))) = 2
                    /\ components = 1
                    /\ result = Number(boxes[attempts[n].i][1] * boxes[attempts[n].j][1])
    /\ (pc = "done2" /\ Len0(boxes) >= 2) =>
          Cardinality(Components(AppliedEdges)) = 1
    /\ (pc = "done2" /\ boxes = Scenario2) =>
          /\ result = Number(2)
          /\ attempts = <<[i |-> 0, j |-> 1, merged |-> TRUE],
                          [i |-> 1, j |-> 2, merged |-> TRUE]>>
          /\ Len(pairs) = 3

\* part2 has returned a product of two non-zero x coordinates, after a union
\* that merged nothing, with candidate pairs left unvisited.
C10_Witness ==
    /\ pc = "done2"
    /\ Len0(boxes) >= 4
    /\ result.val # 0
    /\ Merges < Len(attempts)
    /\ Len(attempts) < Len(pairs)

\* C11: part2 returns 0 if and only if the component count never reaches 1
\* by a merge (N = 0 or N = 1); a returned 0 is never the product computed
\* for an input that did connect.
C11_ZeroIsSentinel ==
    pc = "done2" =>
        (result = Number(0) <=> ~(\E h \in 1..Len(attempts) : attempts[h].merged /\ components = 1))

\* C12: for every input with N >= 2 points part2 reaches a component count
\* of exactly 1 before the candidate list is exhausted, after exactly N - 1
\* successful unions: while more than one component is left the scan has a
\* next pair to visit (each visit advances k, so the scan ends), and it
\* returns only with one component, the last union having merged.
C12_ReachesOne ==
    /\ pc \in {"scan", "done2"} =>
          /\ components = Len0(boxes) - Merges
          /\ k = Len(attempts)
          /\ k <= Len(pairs)
    /\ (pc = "scan" /\ Len0(boxes) >= 2 /\ components > 1) => k < Len(pairs)
    /\ (pc = "done2" /\ Len0(boxes) >= 2) =>
          /\ components = 1
          /\ Merges = Len0(boxes) - 1
          /\ attempts[Len(attempts)].merged

\* Five points are one component after four merges, one union having merged
\* nothing, with candidate pairs left over.
C12_Witness ==
    /\ pc = "done2"
    /\ Len0(boxes) = 5
    /\ components = 1
    /\ Merges = 4
    /\ Len(attempts) > 4
    /\ Len(attempts) < Len(pairs)

-----------------------------------------------------------------------------
(* union and find, call by call *)

\* The last call was a union that merged; ra and rb are the roots of its
\* arguments before the call.
MergedLast == pc = "uf" /\ last.op = "union" /\ last.flag

LastRa == RootOf(last.parent, last.a)

LastRb == RootOf(last.parent, last.b)

\* C13: when union(a, b) merges two sets of different sizes, the root of the
\* strictly smaller set becomes a child of the root of the larger set, the
\* surviving root's size becomes the sum of both sizes, and no other size
\* entry changes.
C13_SmallerUnderLarger ==
    (MergedLast /\ last.size[LastRa] # last.size[LastRb]) =>
        LET small == IF last.size[LastRa] < last.size[LastRb] THEN LastRa ELSE LastRb
            big == IF last.size[LastRa] < last.size[LastRb] THEN LastRb ELSE LastRa
        IN  /\ parent[small] = big
            /\ parent[big] = big
            /\ size[big] = last.size[LastRa] + last.size[LastRb]
            /\ \A x \in DOMAIN size : x # big => size[x] = last.size[x]

\* union(a, b) has merged the set of a, a singleton, into the set of b, which
\* had two indices or more.
C13_Witness ==
    /\ MergedLast
    /\ last.size[LastRa] = 1
    /\ last.size[LastRb] >= 2
    /\ parent[LastRa] = LastRb

\* C14: when union(a, b) merges two sets of equal size, root(b) is
\* re-parented under root(a), and root(a) identifies the merged component:
\* it is the find of every index of the two former sets.
C14_TieKeepsRootA ==
    (MergedLast /\ last.size[LastRa] = last.size[LastRb]) =>
        /\ parent[LastRb] = LastRa
        /\ \A x \in DOMAIN parent :
              (RootOf(last.parent, x) \in {LastRa, LastRb}) <=> (find(parent, x).ret = LastRa)

\* union(a, b) has merged two sets of two indices each.
C14_Witness ==
    /\ MergedLast
    /\ last.size[LastRa] = 2
    /\ last.size[LastRb] = 2

\* C15 as stated: when union(a, b) merges two sets of equal size, the first
\* argument's root is attached under the second argument's root.
C15_FirstUnderSecond ==
    (MergedLast /\ last.size[LastRa] = last.size[LastRb]) => parent[LastRa] = LastRb

\* C15 as amended: when union(a, b) merges two sets of equal size, the
\* second argument's root is attached under the first argument's root, which
\* stays a root and records the doubled size.
C15_SecondUnderFirst ==
    (MergedLast /\ last.size[LastRa] = last.size[LastRb]) =>
        /\ parent[LastRb] = LastRa
        /\ parent[LastRa] = LastRa
        /\ parent[LastRa] # LastRb
        /\ size[LastRa] = 2 * last.size[LastRa]

\* union(a, b) has merged two singletons, a being the larger index.
C15_Witness ==
    /\ MergedLast
    /\ last.a > last.b
    /\ last.size[LastRa] = 1
    /\ last.size[LastRb] = 1

\* C16: union(a, b) called with find(a) = find(b) returns false and leaves
\* the size array and the partition unchanged; a parent entry differs
\* afterwards only at a non-root index on the path from a or from b to the
\* root, and then it holds the root.
C16_NoOpUnion ==
    (pc = "uf" /\ last.op = "union" /\ LastRa = LastRb) =>
        /\ ~last.flag
        /\ size = last.size
        /\ WalkPartition(parent) = WalkPartition(last.parent)
        /\ \A x \in DOMAIN parent :
              parent[x] # last.parent[x] =>
                 /\ OnPath(last.parent, last.a, x) \/ OnPath(last.parent, last.b, x)
                 /\ x # LastRa
                 /\ parent[x] = LastRa

\* union(a, b) on two indices of one set has returned false after
\* compressing a path.
C16_Witness ==
    /\ pc = "uf"
    /\ last.op = "union"
    /\ last.a # last.b
    /\ LastRa = LastRb
    /\ ~last.flag
    /\ parent # last.parent

\* C17: after find(x) has returned root r, every index on the former parent
\* path from x to r (x included, r excluded) has parent r; the parent
\* entries off that path, every size entry and every index's root are
\* unchanged.
C17_PathCompression ==
    (pc = "uf" /\ last.op = "find") =>
        /\ last.ret = RootOf(last.parent, last.a)
        /\ \A y \in DOMAIN parent :
              IF OnPath(last.parent, last.a, y) /\ y # last.ret
              THEN parent[y] = last.ret
              ELSE parent[y] = last.parent[y]
        /\ size = last.size
        /\ \A y \in DOMAIN parent : RootOf(parent, y) = RootOf(last.parent, y)

\* find(x) has returned after rewriting the parent of x, two links away
\* from its root.
C17_Witness ==
    /\ pc = "uf"
    /\ last.op = "find"
    /\ last.parent[last.parent[last.a]] # last.parent[last.a]
    /\ parent[last.a] = last.ret
    /\ parent # last.parent

\* C18: after any sequence of union calls find(x) is idempotent: a find(x)
\* that follows find(x) returns the same root and changes no parent entry.
C18_FindIdempotent ==
    (pc = "uf" /\ last.op = "find") =>
        /\ find(parent, last.a).ret = last.ret
        /\ find(parent, last.a).parent = parent
        /\ ~find(parent, last.a).threw

\* find(x) has returned after compressing a path, so that a second find(x)
\* starts from the rewritten forest.
C18_Witness ==
    /\ pc = "uf"
    /\ last.op = "find"
    /\ parent # last.parent
    /\ parent[last.a] = last.ret
    /\ last.ret # last.a

-----------------------------------------------------------------------------
(* The two tie-breaks side by side *)

\* The inputs of the runs made twice or on two forests.
SmallInputs ==
    {b \in Inputs : Len0(b) <= MaxSmall} \cup {Scenario1, Scenario2} \cup ClusterInputs

SmallQueryInit == QueryInit /\ boxes \in SmallInputs

\* Arbitrary union/find calls, part1 and part2, each on both forests.
SpecTie == (UFInit \/ SmallQueryInit) /\ [][UFNext \/ Part1Next \/ Part2Next]_vars

\* C19: the partition reached after any sequence of union calls, the value
\* each union returns, and therefore the results of part1 and part2, are the
\* same whether an equal-size merge attaches root(b) under root(a) or
\* root(a) under root(b).
C19_TieBreakIrrelevant ==
    /\ pc \in {"uf", "loop", "done", "scan", "done2"} =>
          /\ Acyclic(parent) /\ Acyclic(alt.parent)
          /\ WalkPartition(parent) = WalkPartition(alt.parent)
          /\ \A x \in DOMAIN parent : size[RootOf(parent, x)] = alt.size[RootOf(alt.parent, x)]
    /\ (pc = "uf" /\ last.op = "union") => alt.ret = last.flag
    /\ (pc \in {"loop", "scan"} /\ attempts # <<>>) =>
          alt.ret = attempts[Len(attempts)].merged
    /\ pc = "done" => alt.result = result
    /\ pc \in {"scan", "done2"} =>
          /\ alt.components = components
          /\ alt.result = result

\* part2 has returned a non-zero product from a forest whose roots are not
\* the roots of the other forest.
C19_Witness ==
    /\ pc = "done2"
    /\ result.val # 0
    /\ alt.result = result
    /\ {r \in DOMAIN parent : parent[r] = r} # {r \in DOMAIN parent : alt.parent[r] = r}

\* part1 has returned a number from a forest whose roots are not the roots
\* of the other forest.
C19_WitnessPart1 ==
    /\ pc = "done"
    /\ ~result.nan
    /\ alt.result = result
    /\ {r \in DOMAIN parent : parent[r] = r} # {r \in DOMAIN parent : alt.parent[r] = r}

-----------------------------------------------------------------------------
(* A second invocation on the same lines *)

\* part1 or part2 has returned and is called again with the same lines: the
\* boxes parsed are the same, the locals of the first invocation are gone.
Again ==
    /\ pc \in {"done", "done2"}
    /\ run.n = 1
    /\ run' = [n |-> 2, fn |-> "none",
               first |-> [fn |-> run.fn, result |-> result, attempts |-> attempts,
                          pairs |-> pairs]]
    /\ attempts' = <<>>
    /\ pc' = "start"
    /\ UNCHANGED <<others, frames, activeEdges, boxes, pairs, parent, size, k, connections, components, result,
                   last, alt>>

TwiceNext == Part1Next \/ Part2Next \/ Again

SpecTwice == SmallQueryInit /\ [][TwiceNext]_vars

\* C20: running part1 or part2 twice on the same lines returns the same
\* value and passes the same pairs to union in the same order, with the
\* same outcomes: the second invocation starts from a fresh forest and
\* builds the same candidate list.
C20_SecondRunSame ==
    (run.n = 2 /\ pc # "start") =>
        /\ run.fn = run.first.fn
        /\ pairs = run.first.pairs
        /\ k = 0 => (parent = Identity(Len0(boxes)) /\ size = Ones(Len0(boxes)))
        /\ Len(attempts) <= Len(run.first.attempts)
        /\ \A h \in 1..Len(attempts) : attempts[h] = run.first.attempts[h]
        /\ pc \in {"done", "done2"} =>
              /\ result = run.first.result
              /\ attempts = run.first.attempts

\* The second invocation of part2 has returned a non-zero product after
\* three or more unions.
C20_Witness ==
    /\ run.n = 2
    /\ pc = "done2"
    /\ result.val # 0
    /\ Len(attempts) >= 3
    /\ result = run.first.result

\* The second invocation of part1 has returned a number.
C20_WitnessPart1 ==
    /\ run.n = 2
    /\ pc = "done"
    /\ ~result.nan
    /\ Merges >= 2
    /\ result = run.first.result

-----------------------------------------------------------------------------
(* buildVisualization of the graph animation (src/unnamed/part_001), with   *)
(* its own copies of distanceSqrt, createSortedPairs and UnionFind.  The    *)
(* layout coordinates of a node (projectTo2D, normalize3DCoords) and the    *)
(* palette are computed from the boxes alone and are left out of a frame;   *)
(* a node is its id and its component.                                      *)

\* distanceSqrt of part_001
vizDistanceSqrt(a, b) ==
    LET dx == a[1] - b[1]
        dy == a[2] - b[2]
        dz == a[3] - b[3]
    IN  dx * dx + dy * dy + dz * dz

\* The two nested loops of createSortedPairs of part_001.
RECURSIVE vizPushPairs(_, _, _, _)
vizPushPairs(bx, i, j, acc) ==
    IF i >= Len0(bx) THEN acc
    ELSE IF j >= Len0(bx) THEN vizPushPairs(bx, i + 1, i + 2, acc)
    ELSE vizPushPairs(bx, i, j + 1,
                      Append(acc, [i |-> i, j |-> j, d |-> vizDistanceSqrt(bx[i], bx[j])]))

\* (a, b) => a.d - b.d of part_001
vizCompareD(a, b) == a.d - b.d

RECURSIVE vizInsertPair(_, _)
vizInsertPair(s, x) ==
    IF s = <<>> THEN <<x>>
    ELSE IF vizCompareD(Head(s), x) > 0 THEN <<x>> \o s
    ELSE <<Head(s)>> \o vizInsertPair(Tail(s), x)

RECURSIVE vizSortPairsFrom(_, _)
vizSortPairsFrom(s, acc) ==
    IF s = <<>> THEN acc ELSE vizSortPairsFrom(Tail(s), vizInsertPair(acc, Head(s)))

\* createSortedPairs of part_001
vizCreateSortedPairs(bx) == vizSortPairsFrom(vizPushPairs(bx, 0, 1, <<>>), <<>>)

\* UnionFind.find of part_001, with the depth bound of findRec.
RECURSIVE vizFindRec(_, _, _)
vizFindRec(p, x, depth) ==
    IF depth > Len0(p)
    THEN [parent |-> p, ret |-> x, threw |-> TRUE]
    ELSE IF p[x] # x
         THEN LET r == vizFindRec(p, p[x], depth + 1)
              IN  IF r.threw
                  THEN [parent |-> r.parent, ret |-> x, threw |-> TRUE]
                  ELSE [parent |-> [r.parent EXCEPT ![x] = r.ret],
                        ret |-> r.ret, threw |-> FALSE]
         ELSE [parent |-> p, ret |-> p[x], threw |-> FALSE]

vizFind(p, x) == vizFindRec(p, x, 0)

\* Mutant of vizSwapRoots: the roots are swapped on a tie as well.
vizSwapRootsOnTie(s, ra, rb) == s[ra] <= s[rb]

\* if (this.size[ra] < this.size[rb]) [ra, rb] = [rb, ra]; of part_001
vizSwapRoots(s, ra, rb) == s[ra] < s[rb]

\* UnionFind.union of part_001
vizUnion(p, s, a, b) ==
    LET fa == vizFind(p, a)
        fb == vizFind(fa.parent, b)
    IN  IF fa.threw \/ fb.threw
        THEN [parent |-> fb.parent, size |-> s, ret |-> FALSE, threw |-> TRUE]
        ELSE IF fa.ret = fb.ret
        THEN [parent |-> fb.parent, size |-> s, ret |-> FALSE, threw |-> FALSE]
        ELSE LET ra == IF vizSwapRoots(s, fa.ret, fb.ret) THEN fb.ret ELSE fa.ret
                 rb == IF vizSwapRoots(s, fa.ret, fb.ret) THEN fa.ret ELSE fb.ret
             IN  [parent |-> [fb.parent EXCEPT ![rb] = ra],
                  size |-> [s EXCEPT ![ra] = s[ra] + s[rb]],
                  ret |-> TRUE, threw |-> FALSE]

\* getComponent(x) { return this.find(x); }
getComponent(p, x) == vizFind(p, x)

\* positions2D.map((pos, idx) => ({id: idx, ..., component:
\* uf.getComponent(idx)})): the nodes from idx on, each getComponent working
\* on the forest the one before it left.
RECURSIVE mapNodes(_, _, _)
mapNodes(p, idx, acc) ==
    IF idx >= Len0(p) THEN [parent |-> p, nodes |-> acc, threw |-> FALSE]
    ELSE LET g == getComponent(p, idx)
         IN  IF g.threw
             THEN [parent |-> g.parent, nodes |-> acc, threw |-> TRUE]
             ELSE mapNodes(g.parent, idx + 1,
                           Append(acc, [id |-> idx, component |-> g.ret]))

\* Math.sqrt(d), kept as the root of its radicand
MathSqrt(d) == [sqrtOf |-> d]

\* Mutant of pushesFrame: a frame for every union call.
pushesFrameAlways(merged) == TRUE

\* if (uf.union(i, j)) { ... frames.push(...) }
pushesFrame(merged) == merged

\* Lines 183-222: the boxes, the candidate list, the forest, the initial
\* frame with every node its own component, components = length.
VizStart ==
    /\ pc = "start"
    /\ pairs' = vizCreateSortedPairs(boxes)
    /\ parent' = Identity(Len0(boxes))
    /\ size' = Ones(Len0(boxes))
    /\ activeEdges' = <<>>
    /\ frames' = <<[nodes |-> [h \in 1..Len0(boxes) |-> [id |-> h - 1, component |-> h - 1]],
                    edges |-> <<>>,
                    action |-> [text |-> "Initial state", n |-> Len0(boxes)]]>>
    /\ components' = Len0(boxes)
    /\ k' = 0
    /\ pc' = "build"
    /\ run' = [run EXCEPT !.fn = "buildVisualization"]
    /\ UNCHANGED <<others, boxes, connections, result, attempts, last, alt>>

\* One iteration of the loop of lines 224-262.
VizUnion ==
    /\ pc = "build"
    /\ k < Len(pairs) /\ components > 1
    /\ LET e == pairs[k + 1]
           u == vizUnion(parent, size, e.i, e.j)
           edges == Append(activeEdges,
                           [source |-> e.i, target |-> e.j, distance |-> MathSqrt(e.d)])
           m == mapNodes(u.parent, 0, <<>>)
           g == getComponent(m.parent, e.i)
       IN  /\ attempts' = Append(attempts, [i |-> e.i, j |-> e.j, merged |-> u.ret])
           /\ size' = u.size
           /\ IF u.threw
              THEN /\ pc' = "threw"
                   /\ parent' = u.parent
                   /\ UNCHANGED <<k, components, activeEdges, frames>>
              ELSE IF pushesFrame(u.ret)
              THEN /\ components' = components - 1
                   /\ activeEdges' = edges
                   /\ parent' = g.parent
                   /\ frames' = Append(frames,
                         [nodes |-> m.nodes,
                          edges |-> edges,
                          action |-> [text |-> "Connected node", i |-> e.i, j |-> e.j,
                                      distance |-> MathSqrt(e.d),
                                      remaining |-> components - 1],
                          highlightEdge |-> [source |-> e.i, target |-> e.j],
                          highlightNodes |-> <<e.i, e.j>>])
                   /\ k' = k + 1
                   /\ pc' = IF m.threw \/ g.threw THEN "threw" ELSE "build"
              ELSE /\ parent' = u.parent
                   /\ k' = k + 1
                   /\ pc' = "build"
                   /\ UNCHANGED <<components, activeEdges, frames>>
    /\ UNCHANGED <<others, boxes, pairs, connections, result, last, alt, run>>

\* The loop has ended: the final frame of lines 264-279, and the return.
VizReturn ==
    /\ pc = "build"
    /\ ~(k < Len(pairs) /\ components > 1)
    /\ LET m == mapNodes(parent, 0, <<>>)
       IN  /\ parent' = m.parent
           /\ frames' = Append(frames,
                 [nodes |-> m.nodes,
                  edges |-> activeEdges,
                  action |-> [text |-> "Complete", components |-> components]])
           /\ pc' = IF m.threw THEN "threw" ELSE "built"
    /\ UNCHANGED <<others, boxes, pairs, size, k, connections, components, result,
                   attempts, last, alt, run, activeEdges>>

BuildNext == VizStart \/ VizUnion \/ VizReturn

\* buildVisualization on its own, or after part2 has returned for the same
\* lines; part2 may also be the one run again.
VizNext == Part2Next \/ Again \/ BuildNext

SpecViz == SmallQueryInit /\ [][VizNext]_vars

\* The union calls that merged, in call order.
IsMerged(a) == a.merged

MergedAttempts(att) == SelectSeq(att, IsMerged)

\* C21: buildVisualization emits, between one initial and one final frame,
\* exactly one frame per successful union and none for a failed union; the
\* k-th such frame carries exactly the k edges merged so far in merge order,
\* highlights the pair (i, j) just merged, and reports N - k components
\* remaining.
C21_FramePerMerge ==
    pc \in {"build", "built"} =>
        LET ma == MergedAttempts(attempts)
            n == Len0(boxes)
            closing == IF pc = "built" THEN 1 ELSE 0
        IN  /\ Len(frames) = 1 + Len(ma) + closing
            /\ frames[1].edges = <<>>
            /\ frames[1].action.text = "Initial state"
            /\ "highlightEdge" \notin DOMAIN frames[1]
            /\ \A c \in 1..Len(ma) :
                  LET f == frames[c + 1]
                  IN  /\ Len(f.edges) = c
                      /\ \A h \in 1..c : /\ f.edges[h].source = ma[h].i
                                         /\ f.edges[h].target = ma[h].j
                      /\ f.highlightEdge = [source |-> ma[c].i, target |-> ma[c].j]
                      /\ f.highlightNodes = <<ma[c].i, ma[c].j>>
                      /\ f.action.text = "Connected node"
                      /\ f.action.remaining = n - c
            /\ pc = "built" =>
                  LET f == frames[Len(frames)]
                  IN  /\ f.action.text = "Complete"
                      /\ "highlightEdge" \notin DOMAIN f
                      /\ Len(f.edges) = Len(ma)
                      /\ \A h \in 1..Len(ma) : /\ f.edges[h].source = ma[h].i
                                               /\ f.edges[h].target = ma[h].j

\* buildVisualization has returned five frames or more, one union having
\* merged nothing.
C21_Witness ==
    /\ pc = "built"
    /\ Len(MergedAttempts(attempts)) >= 3
    /\ Len(MergedAttempts(attempts)) < Len(attempts)
    /\ Len(frames) = Len(MergedAttempts(attempts)) + 2

\* C22: in part2 and in buildVisualization, after every loop iteration the
\* live counter components equals the number of distinct values of find(x)
\* over x in [0, N).
C22_ComponentsCountRoots ==
    /\ pc \in {"scan", "done2"} =>
          components = Cardinality({find(parent, x).ret : x \in DOMAIN parent})
    /\ pc \in {"build", "built"} =>
          components = Cardinality({vizFind(parent, x).ret : x \in DOMAIN parent})

\* The loop of buildVisualization has made a union that merged nothing,
\* after merges, and two components or more are left.
C22_Witness ==
    /\ pc = "build"
    /\ Len(MergedAttempts(attempts)) >= 2
    /\ ~attempts[Len(attempts)].merged
    /\ components >= 2

\* The same in the loop of part2.
C22_WitnessPart2 ==
    /\ pc = "scan"
    /\ Len(MergedAttempts(attempts)) >= 2
    /\ ~attempts[Len(attempts)].merged
    /\ components >= 2

\* The forest of part2 after its first h union calls.
RECURSIVE Part2Forest(_)
Part2Forest(h) ==
    IF h = 0 THEN NewUnionFind(Len0(boxes))
    ELSE LET f == Part2Forest(h - 1)
             a == run.first.attempts[h]
         IN  union(f.parent, f.size, a.i, a.j)

\* The number of the call that made the c-th merge of part2.
MergeCall(c) ==
    CHOOSE h \in 1..Len(run.first.attempts) :
        /\ run.first.attempts[h].merged
        /\ Len(MergedAttempts(SubSeq(run.first.attempts, 1, h))) = c

\* buildVisualization is running, or has returned, after part2 returned for
\* the same lines.
VizAfterPart2 ==
    /\ run.n = 2
    /\ run.first.fn = "part2"
    /\ run.fn = "buildVisualization"
    /\ pc \in {"build", "built"}

\* C23: on the same input the pairs successfully united by
\* buildVisualization are, in order, the pairs successfully united by part2;
\* the edge highlighted in the last merge frame is part2's bridging edge,
\* and the node component ids of each frame are the find roots of part2's
\* forest at that step.
C23_SameMergesAsPart2 ==
    VizAfterPart2 =>
        LET ma == MergedAttempts(attempts)
            mb == MergedAttempts(run.first.attempts)
        IN  /\ Len(ma) <= Len(mb)
            /\ \A c \in 1..Len(ma) :
                  /\ ma[c] = mb[c]
                  /\ \A x \in DOMAIN boxes :
                        /\ frames[c + 1].nodes[x + 1].id = x
                        /\ frames[c + 1].nodes[x + 1].component =
                              find(Part2Forest(MergeCall(c)).parent, x).ret
            /\ pc = "built" =>
                  /\ ma = mb
                  /\ \A x \in DOMAIN boxes :
                        frames[Len(frames)].nodes[x + 1].component =
                            find(Part2Forest(Len(run.first.attempts)).parent, x).ret
                  /\ Len(mb) > 0 =>
                        LET e == frames[Len(frames) - 1].highlightEdge
                            b == run.first.attempts[Len(run.first.attempts)]
                        IN  /\ e = [source |-> b.i, target |-> b.j]
                            /\ run.first.result =
                                  Number(boxes[e.source][1] * boxes[e.target][1])

\* buildVisualization has returned after part2 did, with three merge frames
\* or more, a union that merged nothing, and a non-zero bridging product.
C23_Witness ==
    /\ VizAfterPart2
    /\ pc = "built"
    /\ Len(MergedAttempts(attempts)) >= 3
    /\ Len(MergedAttempts(attempts)) < Len(attempts)
    /\ run.first.result.val # 0

-----------------------------------------------------------------------------
(* VisualizationPlayer (src/web/src/components/VisualizationPlayer.tsx):    *)
(* the fetch effect, the timer effect and the three buttons.  An event      *)
(* handler, a timer callback and a promise reaction each run to completion, *)
(* so each is one action.  speed and view3D take no part in what follows    *)
(* and are left out: a tick is a tick whatever the delay.                   *)

\* Largest frames array of a payload.
MaxFrames == 2

\* Largest number of fetches started by one player.
MaxRequests == 3

\* The values (year, day, visualization.id) can take.
Keys == {1, 2}

\* No day 8 function is running.
Day8Idle ==
    /\ boxes = <<>>
    /\ pairs = <<>>
    /\ parent = <<>>
    /\ size = <<>>
    /\ pc = "idle"
    /\ k = 0
    /\ connections = 0
    /\ components = 0
    /\ result = Number(0)
    /\ attempts = <<>>
    /\ last = NoCall
    /\ alt = [parent |-> <<>>, size |-> <<>>, ret |-> FALSE, components |-> 0,
              result |-> Number(0)]
    /\ run = FirstRun
    /\ frames = <<>>
    /\ activeEdges = <<>>

\* The documents JSON.parse can hand to the second reaction: format is one of
\* the two supported tags or another one, frames is an array or is missing
\* (undefined, null, 0, "" alike make !payload.frames true).
Payloads ==
    [format : {"grid-frames", "graph-frames", "other"},
     hasFrames : {TRUE},
     frames : {[h \in 1..n |-> h] : n \in 0..MaxFrames}]
    \cup [format : {"grid-frames", "graph-frames", "other"},
          hasFrames : {FALSE}, frames : {<<>>}]

NoPayload == [format |-> "", hasFrames |-> FALSE, frames |-> <<>>]

\* What a fetch can end with: a rejected fetch, a response that is not ok, a
\* body that is not JSON, or a parsed document.
Outcomes ==
    [kind : {"rejected", "not ok", "not json"}, payload : {NoPayload}]
    \cup [kind : {"json"}, payload : Payloads]

\* The message of the Error that reaches .catch
errorMessage(o) ==
    CASE o.kind = "rejected" -> "Failed to fetch"
      [] o.kind = "not ok" -> "Request failed (404)"
      [] o.kind = "not json" -> "Unexpected token"
      [] OTHER -> "Unsupported visualization format"

\* (payload.format !== "grid-frames" && payload.format !== "graph-frames")
\*   || !payload.frames
unsupported(payload) ==
    (payload.format # "grid-frames" /\ payload.format # "graph-frames")
        \/ ~payload.hasFrames

\* Mutant of isCancelled: the flag is never looked at.
isCancelledNever(req) == FALSE

\* if (cancelled) return;
isCancelled(req) == req.cancelled

\* The promise chain of lines 311-327 for the fetch of req ending with o:
\* which setter it calls, and with what.
settle(req, o) ==
    IF o.kind # "json"
    THEN \* the first reaction threw or fetch rejected: .catch
         IF isCancelled(req)
         THEN [setData |-> FALSE, setError |-> FALSE, data |-> NoData, message |-> ""]
         ELSE [setData |-> FALSE, setError |-> TRUE, data |-> NoData,
               message |-> errorMessage(o)]
    ELSE IF isCancelled(req)
    THEN [setData |-> FALSE, setError |-> FALSE, data |-> NoData, message |-> ""]
    ELSE IF unsupported(o.payload)
    THEN \* throw new Error("Unsupported visualization format"), then .catch
         IF isCancelled(req)
         THEN [setData |-> FALSE, setError |-> FALSE, data |-> NoData, message |-> ""]
         ELSE [setData |-> FALSE, setError |-> TRUE, data |-> NoData,
               message |-> errorMessage(o)]
    ELSE [setData |-> TRUE, setError |-> FALSE,
          data |-> [null |-> FALSE, format |-> o.payload.format,
                    frames |-> o.payload.frames],
          message |-> ""]

\* (idx + 1) % n in IEEE arithmetic: NaN when idx is NaN or n is 0.
nextIndex(idx, n) ==
    IF idx.nan \/ n = 0 THEN NotANumber ELSE Number((idx.val + 1) % n)

\* data?.frames.length ?? 0
totalFrames == IF data.null THEN 0 ELSE Len(data.frames)

Event(op) == [op |-> op, indexBefore |-> frameIndex, total |-> totalFrames]

\* The component has been mounted with some props and its effects have run:
\* the first fetch is on its way, nothing is loaded.
PlayerInit ==
    /\ Day8Idle
    /\ IdleExcept("player")
    /\ props \in Keys
    /\ mounted = TRUE
    /\ data = NoData
    /\ frameIndex = Number(0)
    /\ isPlaying = FALSE
    /\ error = NoError
    /\ requests = <<[key |-> props, cancelled |-> FALSE, pending |-> TRUE]>>
    /\ lastEvent = [op |-> "mount"]

\* The cleanup of the fetch effect: cancelled = true in the closure of the
\* last effect run.
cleanup(reqs) == [reqs EXCEPT ![Len(reqs)].cancelled = TRUE]

\* year, day or visualization.id changes: the cleanup of lines 328-330, then
\* the effect body of lines 306-310 with a new cancelled flag and a new fetch.
ChangeProps(key) ==
    /\ mounted
    /\ key # props
    /\ Len(requests) < MaxRequests
    /\ props' = key
    /\ error' = NoError
    /\ isPlaying' = FALSE
    /\ frameIndex' = Number(0)
    /\ requests' = Append(cleanup(requests),
                          [key |-> key, cancelled |-> FALSE, pending |-> TRUE])
    /\ lastEvent' = Event("props")
    /\ UNCHANGED <<exceptPlayer, mounted, data>>

\* The component is unmounted: the cleanup runs, the timer is cleared.
Unmount ==
    /\ mounted
    /\ mounted' = FALSE
    /\ requests' = cleanup(requests)
    /\ lastEvent' = Event("unmount")
    /\ UNCHANGED <<exceptPlayer, props, data, frameIndex, isPlaying, error>>

\* The fetch of request r ends with outcome o and its reactions run.
Respond(r, o) ==
    /\ requests[r].pending
    /\ LET s == settle(requests[r], o)
       IN  /\ data' = IF s.setData THEN s.data ELSE data
           /\ error' = IF s.setError THEN [null |-> FALSE, message |-> s.message]
                       ELSE error
           /\ lastEvent' = [op |-> "respond", req |-> r,
                            current |-> mounted /\ r = Len(requests),
                            applied |-> s.setData \/ s.setError,
                            outcome |-> o,
                            dataBefore |-> data, errorBefore |-> error]
    /\ requests' = [requests EXCEPT ![r].pending = FALSE]
    /\ UNCHANGED <<exceptPlayer, props, mounted, frameIndex, isPlaying>>

\* onClick={() => setIsPlaying((p) => !p)}
TogglePlay ==
    /\ mounted /\ ~data.null
    /\ isPlaying' = ~isPlaying
    /\ lastEvent' = Event("toggle")
    /\ UNCHANGED <<exceptPlayer, props, mounted, data, frameIndex, error, requests>>

\* The interval callback of line 343; the interval exists while data is
\* loaded and isPlaying.
Tick ==
    /\ mounted /\ ~data.null /\ isPlaying
    /\ frameIndex' = nextIndex(frameIndex, Len(data.frames))
    /\ lastEvent' = Event("tick")
    /\ UNCHANGED <<exceptPlayer, props, mounted, data, isPlaying, error, requests>>

\* onClick={() => setFrameIndex((idx) => (idx + 1) % totalFrames)}
StepForward ==
    /\ mounted /\ ~data.null
    /\ frameIndex' = nextIndex(frameIndex, totalFrames)
    /\ lastEvent' = Event("step")
    /\ UNCHANGED <<exceptPlayer, props, mounted, data, isPlaying, error, requests>>

\* onClick={() => { setFrameIndex(0); setIsPlaying(false); }}
Reset ==
    /\ mounted /\ ~data.null
    /\ frameIndex' = Number(0)
    /\ isPlaying' = FALSE
    /\ lastEvent' = Event("reset")
    /\ UNCHANGED <<exceptPlayer, props, mounted, data, error, requests>>

PlayerNext ==
    \/ \E key \in Keys : ChangeProps(key)
    \/ Unmount
    \/ \E r \in 1..Len(requests), o \in Outcomes : Respond(r, o)
    \/ TogglePlay
    \/ Tick
    \/ StepForward
    \/ Reset

SpecPlayer == PlayerInit /\ [][PlayerNext]_vars

\* C24: in VisualizationPlayer, for every payload accepted by the format
\* check and every sequence of play/pause toggles, timer ticks, step-forward
\* clicks and reset clicks, frameIndex is an integer with
\* 0 <= frameIndex < frames.length; a tick or step from the last frame wraps
\* to 0, and reset sets frameIndex to 0 and stops playback.  The props have
\* not changed since the mount, so the payload is the one the frames are of.
C24_FrameIndexInRange ==
    (Len(requests) = 1 /\ ~data.null) =>
        /\ ~frameIndex.nan
        /\ 0 <= frameIndex.val
        /\ frameIndex.val < Len(data.frames)
        /\ (lastEvent.op \in {"tick", "step"}
              /\ lastEvent.indexBefore = Number(lastEvent.total - 1))
                 => frameIndex = Number(0)
        /\ lastEvent.op = "reset" => (frameIndex = Number(0) /\ ~isPlaying)

\* C25: a fetch response, success or failure, that arrives after year, day
\* or visualization id changed, or after unmount, never updates data or
\* error: only the response of the most recently started request, while
\* mounted, calls setData or setError.
C25_StaleResponseIgnored ==
    lastEvent.op = "respond" =>
        /\ lastEvent.applied => lastEvent.current
        /\ ~lastEvent.current =>
              /\ data = lastEvent.dataBefore
              /\ error = lastEvent.errorBefore

\* The response of a superseded request has arrived with a supported payload
\* after the response of the latest request was applied, and data is still
\* the latter's.
C25_Witness ==
    /\ lastEvent.op = "respond"
    /\ lastEvent.req < Len(requests)
    /\ lastEvent.outcome.kind = "json"
    /\ ~unsupported(lastEvent.outcome.payload)
    /\ ~data.null
    /\ data.frames # lastEvent.outcome.payload.frames
    /\ ~requests[Len(requests)].pending

-----------------------------------------------------------------------------
(* GET of src/web/src/app/api/visuals/[year]/[day]/[viz]/route.ts.  A path  *)
(* is a string, a string is the sequence of its characters; the characters  *)
(* are "/", "." and the letter "d".                                         *)

\* Longest file value of a metadata entry.
MaxFile == 5

Chars == {"/", ".", "d"}

Strings(n) == UNION {[1..m -> Chars] : m \in 0..n}

\* path.join(process.cwd(), yearConfig.srcPath)
srcDir == <<"/", "s">>

\* getDayDir: path.join(srcDir, `day${dayStr}`), the directory name being "d"
getDayDir(dir) == dir \o <<"/", "d">>

\* s.split("/"): the segments of s from position i on, cur being the segment
\* under way.
RECURSIVE splitPath(_, _, _, _)
splitPath(s, i, cur, acc) ==
    IF i > Len(s) THEN Append(acc, cur)
    ELSE IF s[i] = "/" THEN splitPath(s, i + 1, <<>>, Append(acc, cur))
    ELSE splitPath(s, i + 1, Append(cur, s[i]), acc)

\* The normalisation of path.resolve: "" and "." are dropped, ".." drops the
\* segment before it and is dropped itself at the root.
RECURSIVE normalizeSegments(_, _)
normalizeSegments(segs, acc) ==
    IF segs = <<>> THEN acc
    ELSE LET seg == Head(segs)
         IN  IF seg = <<>> \/ seg = <<".">>
             THEN normalizeSegments(Tail(segs), acc)
             ELSE IF seg = <<".", ".">>
             THEN normalizeSegments(Tail(segs),
                                    IF acc = <<>> THEN acc
                                    ELSE SubSeq(acc, 1, Len(acc) - 1))
             ELSE normalizeSegments(Tail(segs), Append(acc, seg))

\* The absolute path with the given segments.
RECURSIVE joinSegments(_)
joinSegments(segs) ==
    IF segs = <<>> THEN <<>>
    ELSE <<"/">> \o Head(segs) \o joinSegments(Tail(segs))

\* The segments of the absolute path path.resolve(from, to) stands for.
resolvedSegments(from, to) ==
    normalizeSegments(
        splitPath(IF to # <<>> /\ to[1] = "/" THEN to ELSE from \o <<"/">> \o to,
                  1, <<>>, <<>>),
        <<>>)

\* path.resolve(from, to) on POSIX, from being absolute
pathResolve(from, to) ==
    IF resolvedSegments(from, to) = <<>> THEN <<"/">>
    ELSE joinSegments(resolvedSegments(from, to))

\* String.prototype.startsWith
startsWith(s, prefix) ==
    Len(s) >= Len(prefix) /\ SubSeq(s, 1, Len(prefix)) = prefix

NoFile == [null |-> TRUE, path |-> <<>>]

\* meta.find((v) => v.id === vizId): the position of the first entry with
\* that id, 0 when there is none.
findEntry(meta, vizId) ==
    IF \E h \in 1..Len(meta) : meta[h].id = vizId
    THEN CHOOSE h \in 1..Len(meta) :
             /\ meta[h].id = vizId
             /\ \A g \in 1..(h - 1) : meta[g].id # vizId
    ELSE 0

resolveVisualizationFile(dayDir, meta, vizId) ==
    LET h == findEntry(meta, vizId)
        filePath == pathResolve(dayDir, meta[h].file)
    IN  IF h = 0 THEN NoFile
        ELSE IF ~startsWith(filePath, pathResolve(dayDir, <<>>)) THEN NoFile
        ELSE [null |-> FALSE, path |-> filePath]

\* The file values of the second metadata entry.
SecondFiles == {<<"d">>, <<".", ".", "/", "d", "d">>}

\* meta.visualizations ?? []
Metas ==
    {<<>>}
    \cup {<<[id |-> i, file |-> f]>> : i \in {"a", "b"}, f \in Strings(MaxFile)}
    \cup {<<[id |-> i, file |-> f], [id |-> j, file |-> g]>> :
            i \in {"a", "b"}, f \in Strings(MaxFile), j \in {"a", "b"}, g \in SecondFiles}

\* A request: how far GET gets before it resolves a file (the day is out of
\* range, meta.json is missing, meta.json does not parse, or the metadata is
\* read), the metadata, the id asked for, and whether the resolved path
\* exists.
RouteRequests ==
    [stage : {"bad day", "no meta", "invalid meta"}, meta : {<<>>}, viz : {"a"},
     exists : {FALSE}]
    \cup [stage : {"meta"}, meta : Metas, viz : {"a", "b"}, exists : BOOLEAN]

RouteInit ==
    /\ Day8Idle
    /\ IdleExcept("route")
    /\ routeReq \in RouteRequests
    /\ routeRes = [status |-> 0]

\* export async function GET
GET ==
    /\ routeRes.status = 0
    /\ routeRes' =
          IF routeReq.stage = "bad day" THEN [status |-> 404, error |-> "Not found"]
          ELSE IF routeReq.stage = "no meta"
          THEN [status |-> 404, error |-> "No metadata for day"]
          ELSE IF routeReq.stage = "invalid meta"
          THEN [status |-> 500, error |-> "Invalid metadata"]
          ELSE LET vizFile == resolveVisualizationFile(getDayDir(srcDir), routeReq.meta,
                                                       routeReq.viz)
               IN  IF vizFile.null \/ ~routeReq.exists
                   THEN [status |-> 404, error |-> "Visualization not found"]
                   ELSE [status |-> 200, file |-> vizFile.path]
    /\ UNCHANGED <<exceptRoute, routeReq>>

RouteNext == GET

SpecRoute == RouteInit /\ [][RouteNext]_vars

\* The path is the directory dir or a descendant of it: its segments begin
\* with the segments of dir.
InsideDirectory(path, dir) ==
    LET ps == resolvedSegments(<<"/">>, path)
        ds == resolvedSegments(<<"/">>, dir)
    IN  Len(ps) >= Len(ds) /\ SubSeq(ps, 1, Len(ds)) = ds

\* C26: the visualization route serves only files located inside the
\* requested day's directory: resolveVisualizationFile returns null, and GET
\* answers 404, for every metadata entry whose file resolves to a path that
\* is not the day directory or a descendant of it, sibling directories whose
\* name starts with the day directory's name included.
C26_OnlyInsideDayDir ==
    /\ routeRes.status = 200 => InsideDirectory(routeRes.file, getDayDir(srcDir))
    /\ (routeRes.status # 0 /\ routeReq.stage = "meta"
           /\ findEntry(routeReq.meta, routeReq.viz) # 0) =>
          LET f == routeReq.meta[findEntry(routeReq.meta, routeReq.viz)].file
          IN  ~InsideDirectory(pathResolve(getDayDir(srcDir), f), getDayDir(srcDir))
                 => /\ resolveVisualizationFile(getDayDir(srcDir), routeReq.meta,
                                                routeReq.viz).null
                    /\ routeRes.status = 404

-----------------------------------------------------------------------------
(* buildVisualization of the grid-fill animation                            *)
(* (src/2025/src/day03/visualization.ts, lines 165-290).  A grid is a       *)
(* function from 0..rows-1 to functions from 0..cols-1 to characters.  The  *)
(* palette is left out: it is written and never read.                       *)

\* Largest number of rows of an input grid.
MaxRows == 3

\* Largest number of columns of an input grid.
MaxCols == 4

NEIGHBORS ==
    <<<<-1, 0>>, <<1, 0>>, <<0, -1>>, <<0, 1>>, <<-1, -1>>, <<-1, 1>>, <<1, -1>>,
      <<1, 1>>>>

\* const symbols = "123456789ABCDEFGHIJKLMNOPQRSTUVWXYZ"
symbols ==
    <<"1", "2", "3", "4", "5", "6", "7", "8", "9", "A", "B", "C", "D", "E", "F", "G",
      "H", "I", "J", "K", "L", "M", "N", "O", "P", "Q", "R", "S", "T", "U", "V", "W",
      "X", "Y", "Z">>

\* symbols[wave % symbols.length] ?? "*"
waveMarker(w) == symbols[(w % Len(symbols)) + 1]

\* grid[row]?.[col]
cellAt(g, row, col) ==
    IF row \in DOMAIN g /\ col \in DOMAIN g[row] THEN g[row][col] ELSE "undefined"

countNeighbors(g, row, col) ==
    Cardinality({h \in 1..Len(NEIGHBORS) :
                    cellAt(g, row + NEIGHBORS[h][1], col + NEIGHBORS[h][2]) = "@"})

\* working[row][col] === "@" && countNeighbors(working, row, col) < 4
removable(g, row, col) == cellAt(g, row, col) = "@" /\ countNeighbors(g, row, col) < 4

\* The seeding loops of lines 199-205, from (row, col) on.
RECURSIVE seedQueue(_, _, _, _)
seedQueue(g, row, col, acc) ==
    IF row >= Len0(g) THEN acc
    ELSE IF col >= Len0(g[row]) THEN seedQueue(g, row + 1, 0, acc)
    ELSE seedQueue(g, row, col + 1,
                   IF removable(g, row, col) THEN Append(acc, <<row, col>>) ELSE acc)

\* The loop over NEIGHBORS of lines 221-229, from neighbour h on: the cells
\* pushed.
RECURSIVE pushNeighbors(_, _, _, _, _)
pushNeighbors(g, row, col, h, acc) ==
    IF h > Len(NEIGHBORS) THEN acc
    ELSE LET nRow == row + NEIGHBORS[h][1]
             nCol == col + NEIGHBORS[h][2]
         IN  pushNeighbors(g, row, col, h + 1,
                           IF removable(g, nRow, nCol)
                           THEN Append(acc, <<nRow, nCol>>) ELSE acc)

\* capture(grid, action, position, marker)
capture(g, action, position, marker) ==
    [grid |-> g, action |-> action, position |-> position, marker |-> marker]

\* if (currentWaveRemaining === 0)
waveEnds(remaining) == remaining = 0

\* The grids read by readGrid: rows of equal length of "@" and ".".
Grids ==
    UNION {[0..(r - 1) -> [0..(c - 1) -> {"@", "."}]] : r \in 1..MaxRows, c \in 1..MaxCols}

FillInit ==
    /\ Day8Idle
    /\ IdleExcept("fill")
    /\ working \in Grids
    /\ queue = <<>>
    /\ wave = 0
    /\ currentWaveRemaining = 0
    /\ nextWaveAdds = 0
    /\ fillFrames = <<>>
    /\ fillPc = "start"
    /\ queueGen = <<>>
    /\ removed = <<>>

\* Lines 187-209: the first frame, the seeds, the second frame, the counters.
FillSeed ==
    /\ fillPc = "start"
    /\ queue' = seedQueue(working, 0, 0, <<>>)
    /\ queueGen' = [h \in 1..Len(seedQueue(working, 0, 0, <<>>)) |-> 0]
    /\ fillFrames' = <<capture(working, "Initial grid", <<>>, ""),
                       capture(working, "Seeded paper rolls", <<>>, "")>>
    /\ wave' = 0
    /\ currentWaveRemaining' = Len(seedQueue(working, 0, 0, <<>>))
    /\ nextWaveAdds' = 0
    /\ fillPc' = "loop"
    /\ UNCHANGED <<exceptFill, working, removed>>

\* One iteration of the while loop of lines 211-246.
FillStep ==
    /\ fillPc = "loop"
    /\ Len(queue) > 0
    /\ LET row == Head(queue)[1]
           col == Head(queue)[2]
           marker == waveMarker(wave)
           marked == [working EXCEPT ![row][col] = marker]
           pushed == pushNeighbors(marked, row, col, 1, <<>>)
           adds == nextWaveAdds + Len(pushed)
           remaining == currentWaveRemaining - 1
       IN  IF working[row][col] # "@"
           THEN \* continue
                /\ queue' = Tail(queue)
                /\ queueGen' = Tail(queueGen)
                /\ UNCHANGED <<working, wave, currentWaveRemaining, nextWaveAdds,
                               fillFrames, removed>>
           ELSE /\ working' = marked
                /\ queue' = Tail(queue) \o pushed
                /\ queueGen' = Tail(queueGen)
                                 \o [h \in 1..Len(pushed) |-> Head(queueGen) + 1]
                /\ fillFrames' = Append(fillFrames,
                      capture(marked, [text |-> "removed paper roll", wave |-> wave + 1,
                                       row |-> row, col |-> col],
                              <<row, col>>, marker))
                /\ removed' = Append(removed, [row |-> row, col |-> col, wave |-> wave,
                                               marker |-> marker,
                                               gen |-> Head(queueGen)])
                /\ IF waveEnds(remaining)
                   THEN /\ wave' = wave + 1
                        /\ currentWaveRemaining' = adds
                        /\ nextWaveAdds' = 0
                   ELSE /\ wave' = wave
                        /\ currentWaveRemaining' = remaining
                        /\ nextWaveAdds' = adds
    /\ UNCHANGED <<exceptFill, fillPc>>

\* The queue is empty: lines 248-254.
FillReturn ==
    /\ fillPc = "loop"
    /\ Len(queue) = 0
    /\ fillPc' = "done"
    /\ UNCHANGED <<exceptFill, working, queue, wave, currentWaveRemaining, nextWaveAdds,
                   fillFrames, queueGen, removed>>

FillNext == FillSeed \/ FillStep \/ FillReturn

SpecFill == FillInit /\ [][FillNext]_vars

\* C27: in the grid-fill buildVisualization the wave number used to mark a
\* removed cell equals its breadth-first generation: a cell seeded from the
\* initial grid is marked with wave 0, and a cell pushed by the removal of a
\* generation-w cell is marked with wave w + 1, also when a cell is enqueued
\* more than once.
C27_WaveIsGeneration ==
    \A h \in 1..Len(removed) :
        /\ removed[h].wave = removed[h].gen
        /\ removed[h].marker = waveMarker(removed[h].gen)

-----------------------------------------------------------------------------
(* Day 7 (src/unnamed/part_000, lines 138-200): part1 and part2, called by  *)
(* one caller on one grid array.  A call runs to completion, so it is one   *)
(* action.                                                                  *)

\* Largest number of rows of a day 7 grid.
MaxGridRows == 3

\* Largest number of columns of a day 7 grid.
MaxGridCols == 3

\* Largest number of calls made on one grid.
MaxCalls == 2

\* grid[0].findIndex((char) => char === "S")
findIndexS(g) ==
    IF \E c \in DOMAIN g[0] : g[0][c] = "S"
    THEN CHOOSE c \in DOMAIN g[0] :
             g[0][c] = "S" /\ \A b \in DOMAIN g[0] : b < c => g[0][b] # "S"
    ELSE -1

\* if (beamCol < 0 || beamCol >= grid[0].length) continue;
onGrid(g, cols) == {b \in cols : ~(b < 0 \/ b >= Len0(g[0]))}

\* The rows of part1 from row on: the beams are a Set, so the order in which
\* one row visits them changes neither splitCount nor the cells written.
RECURSIVE part1Rows(_, _, _, _)
part1Rows(g, row, activeBeams, splitCount) ==
    IF row >= Len0(g) THEN [grid |-> g, ret |-> splitCount]
    ELSE LET beams == onGrid(g, activeBeams)
             split == {b \in beams : g[row][b] = "^"}
             newBeams == {b - 1 : b \in split} \cup {b + 1 : b \in split}
                            \cup (beams \ split)
             written == [g EXCEPT ![row] =
                            [c \in DOMAIN g[row] |->
                                IF c \in beams \ split THEN "|" ELSE g[row][c]]]
         IN  part1Rows(written, row + 1, newBeams, splitCount + Cardinality(split))

\* part1 of day 7: the grid it leaves and the value it returns.
day7part1(g) == part1Rows(g, 0, {findIndexS(g)}, 0)

\* The sum of the values of a Map.
RECURSIVE sumValues(_)
sumValues(counts) ==
    IF DOMAIN counts = {} THEN 0
    ELSE LET c == CHOOSE c \in DOMAIN counts : TRUE
         IN  counts[c] + sumValues([b \in DOMAIN counts \ {c} |-> counts[b]])

\* The rows of part2 from row on; beamCounts is a Map from column to count.
RECURSIVE part2Rows(_, _, _)
part2Rows(g, row, beamCounts) ==
    IF row >= Len0(g) THEN [grid |-> g, ret |-> sumValues(beamCounts)]
    ELSE LET beams == onGrid(g, DOMAIN beamCounts)
             split == {b \in beams : g[row][b] = "^"}
             cols == {b - 1 : b \in split} \cup {b + 1 : b \in split}
                        \cup (beams \ split)
             newBeamCounts ==
                 [t \in cols |->
                     (IF t \in beams \ split THEN beamCounts[t] ELSE 0)
                     + (IF t + 1 \in split THEN beamCounts[t + 1] ELSE 0)
                     + (IF t - 1 \in split THEN beamCounts[t - 1] ELSE 0)]
         IN  part2Rows(g, row + 1, newBeamCounts)

\* part2 of day 7: the grid it leaves and the value it returns.
day7part2(g) == part2Rows(g, 0, [c \in {findIndexS(g)} |-> 1])

\* The grids of readGrid(7): a first row with the source S, then rows of
\* empty cells and splitters.
Day7Grids ==
    UNION {{[r \in 0..(rows - 1) |-> IF r = 0 THEN top ELSE rest[r]] :
               top \in {[c \in 0..(cols - 1) |-> IF c = sCol THEN "S" ELSE "."] :
                           sCol \in 0..(cols - 1)},
               rest \in [1..(rows - 1) -> [0..(cols - 1) -> {".", "^"}]]} :
           rows \in 1..MaxGridRows, cols \in 1..MaxGridCols}

Day7Init ==
    /\ Day8Idle
    /\ IdleExcept("day7")
    /\ grid \in Day7Grids
    /\ original = grid
    /\ calls = <<>>

\* The caller calls part1(grid).
CallPart1 ==
    /\ Len(calls) < MaxCalls
    /\ grid' = day7part1(grid).grid
    /\ calls' = Append(calls, [fn |-> "part1", ret |-> day7part1(grid).ret])
    /\ UNCHANGED <<exceptDay7, original>>

\* The caller calls part2(grid).
CallPart2 ==
    /\ Len(calls) < MaxCalls
    /\ grid' = day7part2(grid).grid
    /\ calls' = Append(calls, [fn |-> "part2", ret |-> day7part2(grid).ret])
    /\ UNCHANGED <<exceptDay7, original>>

Day7Next == CallPart1 \/ CallPart2

SpecDay7 == Day7Init /\ [][Day7Next]_vars

\* C28: day 7 part1 and part2 leave their input grid unchanged, so calling
\* part1 twice on the same grid returns the same split count, and calling
\* part2 after part1 on the same grid returns the value part2 alone returns.
C28_GridUnchanged ==
    /\ calls # <<>> => grid = original
    /\ (Len(calls) = 2 /\ calls[1].fn = "part1" /\ calls[2].fn = "part1") =>
          calls[2].ret = calls[1].ret
    /\ (Len(calls) = 2 /\ calls[1].fn = "part1" /\ calls[2].fn = "part2") =>
          calls[2].ret = day7part2(original).ret

-----------------------------------------------------------------------------
(* Day 11 part1 (src/unnamed/part_000, lines 6-60).  A line is the sequence *)
(* of its tokens: the name, ":", and the outputs.  A Map is a function on   *)
(* the keys it holds.                                                       *)

\* Largest number of outputs of one line.
MaxOutputs == 3

\* The nodes that have a line besides "you".
Inner == {"a", "b"}

\* The nodes a line can name as an output.
Targets == Inner \cup {"out"}

\* parts[0] of line.split(":")
lineName(line) == line[1]

\* parts[1].trim().split(" ")
lineOutputs(line) == SubSeq(line, 3, Len(line))

\* lines.forEach of lines 10-18: the graph after the lines from h on.
RECURSIVE buildGraph(_, _, _)
buildGraph(ls, h, g) ==
    IF h > Len(ls) THEN g
    ELSE buildGraph(ls, h + 1,
                    [n \in DOMAIN g \cup {lineName(ls[h])} |->
                        IF n = lineName(ls[h]) THEN lineOutputs(ls[h]) ELSE g[n]])

\* graph.get(node) || []
neighborsOf(g, node) == IF node \in DOMAIN g THEN g[node] ELSE <<>>

\* memo.set(node, paths)
memoSet(m, node, paths) ==
    [n \in DOMAIN m \cup {node} |-> IF n = node THEN paths ELSE m[n]]

\* countPaths(node, visiting): the value returned and the memo afterwards.
\* sumPaths is its loop over the neighbours, from neighbour h on.
RECURSIVE countPaths(_, _, _, _)
RECURSIVE sumPaths(_, _, _, _, _, _)
countPaths(g, node, visiting, m) ==
    IF node = "out" THEN [ret |-> 1, memo |-> m]
    ELSE IF node \in visiting THEN [ret |-> 0, memo |-> m]
    ELSE IF node \in DOMAIN m THEN [ret |-> m[node], memo |-> m]
    ELSE LET s == sumPaths(g, neighborsOf(g, node), visiting \cup {node}, m, 1, 0)
         IN  [ret |-> s.ret, memo |-> memoSet(s.memo, node, s.ret)]

sumPaths(g, neighbors, visiting, m, h, paths) ==
    IF h > Len(neighbors) THEN [ret |-> paths, memo |-> m]
    ELSE LET c == countPaths(g, neighbors[h], visiting, m)
         IN  sumPaths(g, neighbors, visiting, c.memo, h + 1, paths + c.ret)

\* The sequences of at most MaxOutputs different targets, one at least.
OutputLists ==
    {s \in UNION {[1..n -> Targets] : n \in 1..MaxOutputs} :
        \A g, h \in 1..Len(s) : g # h => s[g] # s[h]}

\* The lines a node can have: none, or one line with its outputs.
LinesOf(name) == {<<>>} \cup {<<<<name, ":">> \o outs>> : outs \in OutputLists}

\* The inputs: lines for "you", "a" and "b", each present or not.
Day11Inputs == {y \o a \o b : y \in LinesOf("you"), a \in LinesOf("a"), b \in LinesOf("b")}

Day11Init ==
    /\ Day8Idle
    /\ IdleExcept("day11")
    /\ lines \in Day11Inputs
    /\ graph = <<>>
    /\ start = [defined |-> FALSE, outputs |-> <<>>]
    /\ memo = <<>>
    /\ totalPaths = 0
    /\ outputIndex = 0
    /\ returned = 0
    /\ day11Pc = "start"

\* Lines 7-54: the graph, start, the empty memo; return 0 without a start.
Day11Parse ==
    /\ day11Pc = "start"
    /\ graph' = buildGraph(lines, 1, <<>>)
    /\ start' = IF \E h \in 1..Len(lines) : lineName(lines[h]) = "you"
                THEN [defined |-> TRUE, outputs |-> buildGraph(lines, 1, <<>>)["you"]]
                ELSE [defined |-> FALSE, outputs |-> <<>>]
    /\ memo' = <<>>
    /\ totalPaths' = 0
    /\ outputIndex' = 0
    /\ IF \E h \in 1..Len(lines) : lineName(lines[h]) = "you"
       THEN day11Pc' = "sum" /\ returned' = returned
       ELSE day11Pc' = "done" /\ returned' = 0
    /\ UNCHANGED <<exceptDay11, lines>>

\* One iteration of the loop of lines 55-57.
Day11Count ==
    /\ day11Pc = "sum"
    /\ outputIndex < Len(start.outputs)
    /\ LET c == countPaths(graph, start.outputs[outputIndex + 1], {}, memo)
       IN  /\ totalPaths' = totalPaths + c.ret
           /\ memo' = c.memo
    /\ outputIndex' = outputIndex + 1
    /\ UNCHANGED <<exceptDay11, lines, graph, start, returned, day11Pc>>

\* return totalPaths
Day11Return ==
    /\ day11Pc = "sum"
    /\ outputIndex >= Len(start.outputs)
    /\ returned' = totalPaths
    /\ day11Pc' = "done"
    /\ UNCHANGED <<exceptDay11, lines, graph, start, memo, totalPaths, outputIndex>>

Day11Next == Day11Parse \/ Day11Count \/ Day11Return

SpecDay11 == Day11Init /\ [][Day11Next]_vars

\* The outputs of a node in the input.
OutputsOf(node) ==
    IF \E h \in 1..Len(lines) : lines[h][1] = node
    THEN LET l == CHOOSE l \in {lines[h] : h \in 1..Len(lines)} : l[1] = node
         IN  {l[h] : h \in 3..Len(l)}
    ELSE {}

\* The simple directed paths from "you" to "out": sequences of different
\* nodes, each an output of the one before it.
SimplePaths ==
    {p \in UNION {[1..n -> Targets \cup {"you"}] : n \in 2..(Cardinality(Targets) + 1)} :
        /\ p[1] = "you"
        /\ p[Len(p)] = "out"
        /\ \A g, h \in 1..Len(p) : g # h => p[g] # p[h]
        /\ \A h \in 1..(Len(p) - 1) : p[h + 1] \in OutputsOf(p[h])}

\* The depth-first search with cycle detection and without a memo.
RECURSIVE SearchWithoutMemo(_, _)
RECURSIVE SearchOutputs(_, _, _)
SearchWithoutMemo(node, visiting) ==
    IF node = "out" THEN 1
    ELSE IF node \in visiting THEN 0
    ELSE SearchOutputs(neighborsOf(graph, node), visiting \cup {node}, 1)

SearchOutputs(neighbors, visiting, h) ==
    IF h > Len(neighbors) THEN 0
    ELSE SearchWithoutMemo(neighbors[h], visiting)
            + SearchOutputs(neighbors, visiting, h + 1)

\* C29: day 11 part1 returns the number of distinct simple directed paths
\* from "you" to "out" for every input graph, cyclic graphs included; the
\* memo never changes the count the search without memo would return.
C29_CountsSimplePaths ==
    day11Pc = "done" =>
        /\ returned = Cardinality(SimplePaths)
        /\ start.defined => returned = SearchOutputs(start.outputs, {}, 1)

-----------------------------------------------------------------------------
(* Day 5 part2 (src/2025/src/day05/index.ts, lines 19-41).  A line is the   *)
(* sequence of its tokens: a range line is <<start, "-", end>>, the blank   *)
(* line is <<>>, a value line is <<value>>.                                 *)

\* Largest number of range lines.
MaxRanges == 3

\* Largest value of a range's start or end.
MaxValue == 4

\* lines.findIndex((line) => line.trim() === "")
findIndexBlank(ls) ==
    IF \E h \in 1..Len(ls) : ls[h] = <<>>
    THEN (CHOOSE h \in 1..Len(ls) : ls[h] = <<>> /\ \A g \in 1..(h - 1) : ls[g] # <<>>) - 1
    ELSE -1

\* lines.slice(0, end): a negative end counts from the end of the array.
sliceTo(ls, end) ==
    IF end >= 0 THEN SubSeq(ls, 1, Min(end, Len(ls)))
    ELSE SubSeq(ls, 1, Len(ls) + end)

\* const [start, end] = line.split("-").map(Number)
parseRange(line) == [start |-> line[1], end |-> line[3]]

\* (a, b) => a.start - b.start
compareStart(a, b) == a.start - b.start

RECURSIVE insertRange(_, _)
insertRange(s, x) ==
    IF s = <<>> THEN <<x>>
    ELSE IF compareStart(Head(s), x) > 0 THEN <<x>> \o s
    ELSE <<Head(s)>> \o insertRange(Tail(s), x)

\* .sort((a, b) => a.start - b.start), a stable sort
RECURSIVE sortRanges(_, _)
sortRanges(s, acc) ==
    IF s = <<>> THEN acc ELSE sortRanges(Tail(s), insertRange(acc, Head(s)))

\* merged.length === 0 || prev.end < range.start - 1
opensRange(m, range) == m = <<>> \/ m[Len(m)].end < range.start - 1

\* Mutant of extendedEnd: the end of the range just read.
extendedEndLast(prevEnd, rangeEnd) == rangeEnd

\* Math.max(prev.end, range.end)
extendedEnd(prevEnd, rangeEnd) == IF prevEnd > rangeEnd THEN prevEnd ELSE rangeEnd

\* merged.reduce((sum, r) => sum + (r.end - r.start + 1), 0), from entry h on
RECURSIVE reduceSum(_, _, _)
reduceSum(m, h, sum) ==
    IF h > Len(m) THEN sum ELSE reduceSum(m, h + 1, sum + (m[h].end - m[h].start + 1))

\* The range lines: start <= end, both from 1 to MaxValue.
RangeLines == UNION {{<<s, "-", e>> : e \in s..MaxValue} : s \in 1..MaxValue}

\* The lines after the blank line play no part in part2.
ValueLines == {<<<<1>>>>}

RECURSIVE RangeLists(_)
RangeLists(n) ==
    IF n = 0 THEN {<<>>}
    ELSE RangeLists(n - 1) \cup
         {Append(s, l) : s \in {t \in RangeLists(n - 1) : Len(t) = n - 1}, l \in RangeLines}

\* Inputs of the puzzle's format: range lines, a blank line, value lines.
Day5Inputs == {rs \o <<<<>>>> \o vs : rs \in RangeLists(MaxRanges), vs \in ValueLines}

Day5Init ==
    /\ IdleExcept("day5") /\ Day8Idle
    /\ day5Lines \in Day5Inputs
    /\ ranges = <<>>
    /\ mergedRanges = <<>>
    /\ rangeIndex = 0
    /\ day5Returned = 0
    /\ day5Pc = "start"

\* Lines 20-30: the ranges are read up to the blank line and sorted by start.
Day5Parse ==
    /\ day5Pc = "start"
    /\ LET rangeLines == sliceTo(day5Lines, findIndexBlank(day5Lines))
       IN  ranges' = sortRanges([h \in 1..Len(rangeLines) |-> parseRange(rangeLines[h])], <<>>)
    /\ mergedRanges' = <<>>
    /\ rangeIndex' = 1
    /\ day5Pc' = "merge"
    /\ UNCHANGED <<day5Lines, day5Returned, exceptDay5>>

\* Lines 31-38: one iteration of the loop over ranges.
Day5Merge ==
    /\ day5Pc = "merge"
    /\ rangeIndex <= Len(ranges)
    /\ LET range == ranges[rangeIndex]
           last5 == Len(mergedRanges)
       IN  mergedRanges' =
               IF opensRange(mergedRanges, range)
               THEN Append(mergedRanges, range)
               ELSE [mergedRanges EXCEPT ![last5].end = extendedEnd(@, range.end)]
    /\ rangeIndex' = rangeIndex + 1
    /\ UNCHANGED <<day5Lines, ranges, day5Returned, day5Pc, exceptDay5>>

\* Line 40: the lengths of the merged ranges are summed and returned.
Day5Return ==
    /\ day5Pc = "merge"
    /\ rangeIndex > Len(ranges)
    /\ day5Returned' = reduceSum(mergedRanges, 1, 0)
    /\ day5Pc' = "done"
    /\ UNCHANGED <<day5Lines, ranges, mergedRanges, rangeIndex, exceptDay5>>

Day5Next == Day5Parse \/ Day5Merge \/ Day5Return

SpecDay5 == Day5Init /\ [][Day5Next]_vars

\* The ranges the input gives, read off the lines before the blank one.
InputRanges ==
    {parseRange(day5Lines[h]) :
        h \in {g \in 1..Len(day5Lines) :
                 /\ Len(day5Lines[g]) = 3
                 /\ \A f \in 1..g : day5Lines[f] # <<>>}}

\* The integers covered by at least one input range.
Covered == {v \in 0..(MaxValue + 1) : \E r \in InputRanges : r.start <= v /\ v <= r.end}

\* The merged list is sorted, pairwise disjoint and non-adjacent.
DisjointNonAdjacent(m) ==
    /\ \A h \in 1..Len(m) : m[h].start <= m[h].end
    /\ \A g \in 1..Len(m) : \A h \in (g + 1)..Len(m) : m[g].end + 1 < m[h].start

\* C30: day 5 part2 returns the number of distinct integers covered by at
\* least one input range, whatever the order of the ranges and whether they
\* overlap, nest, touch or repeat; the merged list it builds is sorted,
\* pairwise disjoint and non-adjacent.
C30_CountsCoveredIntegers ==
    /\ day5Pc \in {"merge", "done"} => DisjointNonAdjacent(mergedRanges)
    /\ day5Pc = "done" =>
          /\ day5Returned = Cardinality(Covered)
          /\ \A v \in 0..(MaxValue + 1) :
                v \in Covered <=>
                    \E h \in 1..Len(mergedRanges) :
                        mergedRanges[h].start <= v /\ v <= mergedRanges[h].end

\* Three ranges given out of order, two of them merged (touching or
\* overlapping), the third apart: part2 has returned with two merged ranges.
C30_Witness ==
    /\ day5Pc = "done"
    /\ Len(ranges) = 3
    /\ Len(mergedRanges) = 2
    /\ day5Lines[1][1] > day5Lines[2][1]
    /\ day5Returned = Cardinality(Covered)
    /\ day5Returned > 0

====
